---- MODULE Spec2Model ----
(***************************************************************************)
(* Transaction pool core of ckb: PoolMap (entries + Edges + Links) and the *)
(* TxPool facade operating on it, over a small universe of transactions.   *)
(***************************************************************************)
EXTENDS Integers, FiniteSets, Sequences, Bags, TLC

VARIABLES entries, edges, links, chain, now, last, config,
          cache, queue, pc, inflight, results,
          queue_tx, command_rx, worker_status, mgr, calc

\* the watch channel of the verify queue, the command channel and the
\* status of each worker, and VerifyMgr
mgr_vars == <<queue_tx, command_rx, worker_status, mgr>>

\* the verify queue, where each worker is in process_inner, the entry it
\* holds, and the outcome of each submission
verify_vars == <<queue, pc, inflight, results, mgr_vars>>

\* calc is a call of TxLinksMap::calc_relation_ids in progress: its stage,
\* its relation_ids and where it is in the loop
vars == <<entries, edges, links, chain, now, last, config, cache, verify_vars,
          calc>>

(***************************************************************************)
(* Bounds and configuration                                                *)
(***************************************************************************)
\* TxPoolConfig.max_ancestors_count (PoolMap.max_ancestors_count)
MaxAncestorsCount == 2
\* largest value of the clock
MaxTime == 1
\* TxPool.expiry, in clock ticks
Expiry == 0
\* pool.rs MAX_REPLACEMENT_CANDIDATES
MAX_REPLACEMENT_CANDIDATES == 3
\* the largest number of transactions in a block
MaxBlockTxs == 2
\* pool.rs COMMITTED_HASH_CACHE_SIZE: the cache holds more than one block
COMMITTED_HASH_CACHE_SIZE == MaxBlockTxs + 1
\* the workers of VerifyMgr (num_cpus::get() of them)
Workers == {1, 2}
\* verify_queue.rs DEFAULT_MAX_VERIFY_TRANSACTIONS (100 in the program)
DEFAULT_MAX_VERIFY_TRANSACTIONS == 2
\* the width of Capacity in bits (u64 in the program)
CapacityBits == 6
CapacityMax == 2 ^ CapacityBits - 1
\* FeeRate is shannons per KB
KB == 1000
\* TxPoolConfig: the default rates, and rates with min_rbf_rate = min_fee_rate
DefaultConfig ==
  [min_fee_rate |-> 1000, min_rbf_rate |-> 1500, max_tx_pool_size |-> 10]
Configs == {DefaultConfig, [DefaultConfig EXCEPT !.min_rbf_rate = 1000]}

(***************************************************************************)
(* The universe of transactions.  A transaction hash and its short id are  *)
(* the index of the transaction in the tables; hash 0 is a transaction     *)
(* that is always on chain, with two outputs.  Transactions 1 to 5 are the *)
(* submissions of Spec; the others join them in SpecRbf and conflict with  *)
(* them.                                                                   *)
(***************************************************************************)
\* the fields of the transactions, one table per field
TxInputs ==
  << {<<0, 0>>}, {<<1, 0>>}, {<<2, 0>>}, {<<0, 0>>}, {<<1, 1>>},
     \* 6: spends the input of 1 and the input of 2
     {<<0, 0>>, <<1, 0>>},
     \* 7: spends the input of 1 and an output of 5
     {<<0, 0>>, <<5, 0>>},
     \* 8: spends the input of 1 and the input of 3
     {<<0, 0>>, <<2, 0>>},
     \* 9: spends the input of 1 with an output of 2 as cell dep
     {<<0, 0>>},
     \* 10: spends the input of 1, with a fee that pays for 1 alone
     {<<0, 0>>},
     \* 11: a child of 1 with a fee close to the largest Capacity
     {<<0, 1>>, <<1, 1>>},
     \* 12: spends the input of 1 and an input of 11
     {<<0, 0>>, <<0, 1>>} >>
TxCellDeps ==
  << {}, {}, {<<1, 1>>}, {}, {<<0, 1>>}, {}, {}, {}, {<<2, 0>>}, {}, {}, {} >>
TxHeaderDeps ==
  << {}, {}, {}, {"h1"}, {}, {}, {}, {}, {}, {}, {}, {} >>
TxOutputs == << 2, 1, 1, 1, 1, 1, 1, 1, 1, 1, 1, 1 >>
TxSize == << 1, 2, 4, 8, 16, 2, 2, 2, 2, 1, 1, 1 >>
TxFee == << 3, 5, 7, 40, 2, 30, 50, 50, 50, 4, CapacityMax - 3, CapacityMax >>
TxCycles == << 10, 20, 40, 80, 160, 10, 10, 10, 10, 10, 10, 10 >>

TxIds == 1 .. 5
AllTxIds == DOMAIN TxInputs
Headers == {"h1"}
Statuses == {"Pending", "Gap", "Proposed"}
\* Option::None for a short id
None == 0

input_pts(t) == TxInputs[t]
cell_deps(t) == TxCellDeps[t]
output_pts(t) == {<<t, i>> : i \in 0 .. (TxOutputs[t] - 1)}
\* TxEntry::related_dep_out_points: the out points of the resolved cell deps
related_dep_out_points(t) == TxCellDeps[t]
\* TransactionView::hash of the transaction with short id t
tx_hash(t) == t
\* ProposalShortId::from_tx_hash(out_point.tx_hash())
from_tx_hash(o) == o[1]

(***************************************************************************)
(* Finite maps                                                             *)
(***************************************************************************)
EmptyMap == [x \in {} |-> 0]
Put(f, k, v) == [x \in (DOMAIN f) \cup {k} |-> IF x = k THEN v ELSE f[x]]
Del(f, k) == [x \in (DOMAIN f) \ {k} |-> f[x]]
DelAll(f, ks) == [x \in (DOMAIN f) \ ks |-> f[x]]

Max(a, b) == IF a > b THEN a ELSE b

(***************************************************************************)
(* TxEntry                                                                 *)
(***************************************************************************)
\* TxEntry::new: the aggregates start with the entry's own weight
NewEntry(t, ts) ==
  [timestamp |-> ts,
   ancestors_count |-> 1,
   ancestors_size |-> TxSize[t],
   ancestors_fee |-> TxFee[t],
   ancestors_cycles |-> TxCycles[t]]

add_entry_weight(e, a) ==
  [e EXCEPT !.ancestors_count = @ + 1,
            !.ancestors_size = @ + TxSize[a],
            !.ancestors_fee = @ + TxFee[a],
            !.ancestors_cycles = @ + TxCycles[a]]

\* saturating subtraction
sub_entry_weight(e, a) ==
  [e EXCEPT !.ancestors_count = Max(0, @ - 1),
            !.ancestors_size = Max(0, @ - TxSize[a]),
            !.ancestors_fee = Max(0, @ - TxFee[a]),
            !.ancestors_cycles = Max(0, @ - TxCycles[a])]

reset_statistic_state(t, e) == NewEntry(t, e.timestamp)

(***************************************************************************)
(* Links                                                                   *)
(***************************************************************************)
get_direct_ids(link, relation) ==
  IF relation = "Parents" THEN link.parents ELSE link.children

RECURSIVE calc_relation_loop(_, _, _, _)
calc_relation_loop(lk, stage, relation_ids, relation) ==
  IF stage = {} THEN relation_ids
  ELSE LET id == CHOOSE x \in stage : TRUE
           ids == relation_ids \cup {id}
           direct == IF id \in DOMAIN lk THEN get_direct_ids(lk[id], relation)
                     ELSE {}
       IN  calc_relation_loop(lk, (stage \ {id}) \cup (direct \ ids), ids, relation)

calc_relation_ids(lk, stage, relation) ==
  calc_relation_loop(lk, stage, {}, relation)

calc_relative_ids(lk, short_id, relation) ==
  calc_relation_ids(lk,
     IF short_id \in DOMAIN lk THEN get_direct_ids(lk[short_id], relation) ELSE {},
     relation)

calc_ancestors(lk, short_id) == calc_relative_ids(lk, short_id, "Parents")
calc_descendants(lk, short_id) == calc_relative_ids(lk, short_id, "Children")

remove_child(lk, short_id, child) ==
  IF short_id \in DOMAIN lk
  THEN [lk EXCEPT ![short_id].children = @ \ {child}] ELSE lk
remove_parent(lk, short_id, parent) ==
  IF short_id \in DOMAIN lk
  THEN [lk EXCEPT ![short_id].parents = @ \ {parent}] ELSE lk
add_child(lk, short_id, child) ==
  IF short_id \in DOMAIN lk
  THEN [lk EXCEPT ![short_id].children = @ \cup {child}] ELSE lk
add_parent(lk, short_id, parent) ==
  IF short_id \in DOMAIN lk
  THEN [lk EXCEPT ![short_id].parents = @ \cup {parent}] ELSE lk

(***************************************************************************)
(* PoolMap.  A pool P is the record [entries, edges, links]:               *)
(*   entries : short id -> [status, inner]                                 *)
(*   edges   : [inputs, outputs, deps, header_deps]                        *)
(*   links   : short id -> [parents, children]                             *)
(***************************************************************************)
EmptyPool ==
  [entries |-> EmptyMap,
   edges |-> [inputs |-> EmptyMap, outputs |-> EmptyMap,
              deps |-> EmptyMap, header_deps |-> EmptyMap],
   links |-> EmptyMap]

insert_entry(P, t, inner, status) ==
  [P EXCEPT !.entries = Put(@, t, [status |-> status, inner |-> inner])]

update_parents_for_remove(P, id) ==
  IF id \in DOMAIN P.links
  THEN LET parents == P.links[id].parents
       IN  [P EXCEPT !.links =
              [x \in DOMAIN @ |->
                 IF x \in parents THEN [@[x] EXCEPT !.children = @ \ {id}]
                 ELSE @[x]]]
  ELSE P

update_children_for_remove(P, id) ==
  IF id \in DOMAIN P.links
  THEN LET children == P.links[id].children
       IN  [P EXCEPT !.links =
              [x \in DOMAIN @ |->
                 IF x \in children THEN [@[x] EXCEPT !.parents = @ \ {id}]
                 ELSE @[x]]]
  ELSE P

\* every descendant of parent gets the weight of parent added or subtracted
update_descendants_index_key(P, parent, op) ==
  LET descendants == calc_descendants(P.links, parent)
  IN  [P EXCEPT !.entries =
         [x \in DOMAIN @ |->
            IF x \in descendants
            THEN [@[x] EXCEPT !.inner =
                    IF op = "Remove" THEN sub_entry_weight(@, parent)
                    ELSE add_entry_weight(@, parent)]
            ELSE @[x]]]

\* update_descendants_from_detached that records id with add_child where the
\* code uses add_parent
update_descendants_from_detached_add_child(P, id, children) ==
  IF id \in DOMAIN P.entries
  THEN LET lk1 == [x \in DOMAIN P.links |->
                     IF x \in children
                     THEN [P.links[x] EXCEPT !.children = @ \cup {id}]
                     ELSE P.links[x]]
           lk2 == IF id \in DOMAIN lk1
                  THEN [lk1 EXCEPT ![id].children = @ \cup children]
                  ELSE lk1
       IN  update_descendants_index_key([P EXCEPT !.links = lk2], id, "Add")
  ELSE P

update_descendants_from_detached(P, id, children) ==
  IF id \in DOMAIN P.entries
  THEN LET lk1 == [x \in DOMAIN P.links |->
                     IF x \in children
                     THEN [P.links[x] EXCEPT !.parents = @ \cup {id}]
                     ELSE P.links[x]]
           lk2 == IF id \in DOMAIN lk1
                  THEN [lk1 EXCEPT ![id].children = @ \cup children]
                  ELSE lk1
       IN  update_descendants_index_key([P EXCEPT !.links = lk2], id, "Add")
  ELSE P

record_entry_relations(P, t) ==
  LET e0 == P.edges
      \* inputs: connect to an in-pool output, record the input
      outs1 == [o \in DOMAIN e0.outputs |->
                  IF o \in input_pts(t) THEN t ELSE e0.outputs[o]]
      ins1 == [o \in (DOMAIN e0.inputs) \cup input_pts(t) |->
                  IF o \in input_pts(t) THEN t ELSE e0.inputs[o]]
      \* dep-txid
      deps1 == [o \in (DOMAIN e0.deps) \cup related_dep_out_points(t) |->
                  IF o \in related_dep_out_points(t)
                  THEN (IF o \in DOMAIN e0.deps THEN e0.deps[o] ELSE {}) \cup {t}
                  ELSE e0.deps[o]]
      \* outputs
      children ==
         UNION {IF o \in DOMAIN deps1 THEN deps1[o] ELSE {} : o \in output_pts(t)}
         \cup {ins1[o] : o \in output_pts(t) \cap DOMAIN ins1}
      outs2 == [o \in (DOMAIN outs1) \cup output_pts(t) |->
                  IF o \in output_pts(t)
                  THEN (IF o \in DOMAIN ins1 THEN ins1[o] ELSE None)
                  ELSE outs1[o]]
      hd1 == IF TxHeaderDeps[t] # {}
             THEN Put(e0.header_deps, t, TxHeaderDeps[t])
             ELSE e0.header_deps
      P1 == [P EXCEPT !.edges = [inputs |-> ins1, outputs |-> outs2,
                                  deps |-> deps1, header_deps |-> hd1]]
  IN  IF children # {} THEN update_descendants_from_detached(P1, t, children)
      ELSE P1

\* find_parents without the creators of the cell deps
find_parents_inputs_only(P, t) ==
  UNION {IF o \in DOMAIN P.edges.deps THEN P.edges.deps[o] ELSE {} : o \in input_pts(t)}
  \cup {from_tx_hash(o) : o \in {i \in input_pts(t) : from_tx_hash(i) \in DOMAIN P.links}}

\* the in-pool parents of t: entries citing an input of t as a cell dep, and
\* the entries that created an input or a cell dep of t
find_parents(P, t) ==
  UNION {IF o \in DOMAIN P.edges.deps THEN P.edges.deps[o] ELSE {} : o \in input_pts(t)}
  \cup {from_tx_hash(o) : o \in {i \in input_pts(t) : from_tx_hash(i) \in DOMAIN P.links}}
  \cup {from_tx_hash(o) : o \in {d \in cell_deps(t) : from_tx_hash(d) \in DOMAIN P.links}}

RECURSIVE add_weights(_, _)
add_weights(e, ids) ==
  IF ids = {} THEN e
  ELSE LET a == CHOOSE x \in ids : TRUE
       IN  add_weights(add_entry_weight(e, a), ids \ {a})

\* record_entry_links with the cap compared by >= instead of >
record_entry_links_ge(P, t, entry, status) ==
  LET parents == find_parents(P, t)
      ancestors == calc_relation_ids(P.links, parents, "Parents")
      e1 == add_weights(entry, ancestors)
  IN  IF status = "Proposed" /\ e1.ancestors_count >= MaxAncestorsCount
      THEN [ok |-> FALSE, pool |-> P, entry |-> e1]
      ELSE LET deps1 == [o \in (DOMAIN P.edges.deps) \cup cell_deps(t) |->
                           IF o \in cell_deps(t)
                           THEN (IF o \in DOMAIN P.edges.deps
                                 THEN P.edges.deps[o] ELSE {}) \cup {t}
                           ELSE P.edges.deps[o]]
               lk1 == [x \in DOMAIN P.links |->
                         IF x \in parents
                         THEN [P.links[x] EXCEPT !.children = @ \cup {t}]
                         ELSE P.links[x]]
               lk2 == Put(lk1, t, [parents |-> parents, children |-> {}])
           IN  [ok |-> TRUE,
                pool |-> [P EXCEPT !.edges.deps = deps1, !.links = lk2],
                entry |-> e1]

\* result [ok, pool, entry]; ok = FALSE is Err(ExceededMaximumAncestorsCount)
record_entry_links(P, t, entry, status) ==
  LET parents == find_parents(P, t)
      ancestors == calc_relation_ids(P.links, parents, "Parents")
      e1 == add_weights(entry, ancestors)
  IN  IF status = "Proposed" /\ e1.ancestors_count > MaxAncestorsCount
      THEN [ok |-> FALSE, pool |-> P, entry |-> e1]
      ELSE LET deps1 == [o \in (DOMAIN P.edges.deps) \cup cell_deps(t) |->
                           IF o \in cell_deps(t)
                           THEN (IF o \in DOMAIN P.edges.deps
                                 THEN P.edges.deps[o] ELSE {}) \cup {t}
                           ELSE P.edges.deps[o]]
               lk1 == [x \in DOMAIN P.links |->
                         IF x \in parents
                         THEN [P.links[x] EXCEPT !.children = @ \cup {t}]
                         ELSE P.links[x]]
               lk2 == Put(lk1, t, [parents |-> parents, children |-> {}])
           IN  [ok |-> TRUE,
                pool |-> [P EXCEPT !.edges.deps = deps1, !.links = lk2],
                entry |-> e1]

\* remove_entry_edges without the release of the input records
remove_entry_edges_keep_inputs(P, t) ==
  LET e0 == P.edges
      outs1 == DelAll(e0.outputs, output_pts(t))
      outs2 == [o \in DOMAIN outs1 |->
                  IF o \in input_pts(t) THEN None ELSE outs1[o]]
      deps1 == [o \in {d \in DOMAIN e0.deps :
                          ~(d \in related_dep_out_points(t) /\ e0.deps[d] \ {t} = {})} |->
                  IF o \in related_dep_out_points(t) THEN e0.deps[o] \ {t}
                  ELSE e0.deps[o]]
  IN  [P EXCEPT !.edges = [inputs |-> e0.inputs, outputs |-> outs2, deps |-> deps1,
                           header_deps |-> Del(e0.header_deps, t)]]

\* remove_entry_edges that leaves the outputs the entry consumed marked as
\* consumed
remove_entry_edges_keep_consumed(P, t) ==
  LET e0 == P.edges
      outs1 == DelAll(e0.outputs, output_pts(t))
      ins1 == DelAll(e0.inputs, input_pts(t))
      deps1 == [o \in {d \in DOMAIN e0.deps :
                          ~(d \in related_dep_out_points(t) /\ e0.deps[d] \ {t} = {})} |->
                  IF o \in related_dep_out_points(t) THEN e0.deps[o] \ {t}
                  ELSE e0.deps[o]]
  IN  [P EXCEPT !.edges = [inputs |-> ins1, outputs |-> outs1, deps |-> deps1,
                           header_deps |-> Del(e0.header_deps, t)]]

remove_entry_edges(P, t) ==
  LET e0 == P.edges
      outs1 == DelAll(e0.outputs, output_pts(t))
      ins1 == DelAll(e0.inputs, input_pts(t))
      outs2 == [o \in DOMAIN outs1 |->
                  IF o \in input_pts(t) THEN None ELSE outs1[o]]
      deps1 == [o \in {d \in DOMAIN e0.deps :
                          ~(d \in related_dep_out_points(t) /\ e0.deps[d] \ {t} = {})} |->
                  IF o \in related_dep_out_points(t) THEN e0.deps[o] \ {t}
                  ELSE e0.deps[o]]
  IN  [P EXCEPT !.edges = [inputs |-> ins1, outputs |-> outs2, deps |-> deps1,
                           header_deps |-> Del(e0.header_deps, t)]]

\* result [ret, pool]: ret is "Ok(true)", "Ok(false)" or the reject
add_entry(P, t, entry, status) ==
  IF t \in DOMAIN P.entries THEN [ret |-> "Ok(false)", pool |-> P]
  ELSE LET r == record_entry_links(P, t, entry, status)
       IN  IF ~r.ok
           THEN [ret |-> "ExceededMaximumAncestorsCount", pool |-> r.pool]
           ELSE [ret |-> "Ok(true)",
                 pool |-> record_entry_relations(
                             insert_entry(r.pool, t, r.entry, status), t)]

\* remove_entry that leaves the aggregates of the descendants as they are
remove_entry_keep_weight(P, id) ==
  IF id \in DOMAIN P.entries
  THEN LET P1 == [P EXCEPT !.entries = Del(@, id)]
           P3 == remove_entry_edges(P1, id)
           P4 == update_parents_for_remove(P3, id)
           P5 == update_children_for_remove(P4, id)
       IN  [P5 EXCEPT !.links = Del(@, id)]
  ELSE P

remove_entry(P, id) ==
  IF id \in DOMAIN P.entries
  THEN LET P1 == [P EXCEPT !.entries = Del(@, id)]
           P2 == update_descendants_index_key(P1, id, "Remove")
           P3 == remove_entry_edges(P2, id)
           P4 == update_parents_for_remove(P3, id)
           P5 == update_children_for_remove(P4, id)
       IN  [P5 EXCEPT !.links = Del(@, id)]
  ELSE P

update_deps_for_remove(P, t) ==
  [P EXCEPT !.edges.deps =
     [o \in {d \in DOMAIN @ : ~(d \in cell_deps(t) /\ t \in @[d] /\ @[d] = {t})} |->
        IF o \in cell_deps(t) THEN @[o] \ {t} ELSE @[o]]]

remove_unchecked(P, id) ==
  IF id \in DOMAIN P.entries
  THEN update_deps_for_remove([P EXCEPT !.entries = Del(@, id)], id)
  ELSE P

RECURSIVE update_links_for_remove(_, _)
update_links_for_remove(P, ids) ==
  IF ids = {} THEN P
  ELSE LET id == CHOOSE x \in ids : TRUE
       IN  update_links_for_remove(
              update_children_for_remove(update_parents_for_remove(P, id), id),
              ids \ {id})

RECURSIVE remove_unchecked_all(_, _)
remove_unchecked_all(P, ids) ==
  IF ids = {} THEN P
  ELSE LET id == CHOOSE x \in ids : TRUE
           P1 == IF id \in DOMAIN P.entries
                 THEN [remove_unchecked(P, id) EXCEPT !.links = Del(@, id)]
                 ELSE P
       IN  remove_unchecked_all(P1, ids \ {id})

RECURSIVE remove_edges_all(_, _)
remove_edges_all(P, ids) ==
  IF ids = {} THEN P
  ELSE LET id == CHOOSE x \in ids : TRUE
       IN  remove_edges_all(remove_entry_edges(P, id), ids \ {id})

\* remove_entry_and_descendants that removes the entry and keeps its descendants
remove_entry_and_descendants_alone(P, id) ==
  LET live == {id} \cap DOMAIN P.entries
  IN  [removed |-> [x \in live |-> P.entries[x]], pool |-> remove_entry(P, id)]

\* result [removed, pool]: removed maps each removed id to its entry
remove_entry_and_descendants(P, id) ==
  LET removed_ids == {id} \cup calc_descendants(P.links, id)
      live == removed_ids \cap DOMAIN P.entries
      P1 == update_links_for_remove(P, removed_ids)
      P2 == remove_unchecked_all(P1, removed_ids)
      P3 == remove_edges_all(P2, live)
  IN  [removed |-> [x \in live |-> P.entries[x]], pool |-> P3]

(***************************************************************************)
(* Chain snapshot and cell resolution                                      *)
(***************************************************************************)
\* Snapshot.cell: an output of a committed transaction no committed
\* transaction has consumed
snapshot_cell(ch, o) ==
  IF from_tx_hash(o) = 0
  THEN (IF \E c \in ch : o \in input_pts(c) THEN "Dead"
        ELSE IF o[2] < 2 THEN "Live" ELSE "Unknown")
  ELSE IF from_tx_hash(o) \in ch /\ o \in output_pts(from_tx_hash(o))
  THEN (IF \E c \in ch : o \in input_pts(c) THEN "Dead" ELSE "Live")
  ELSE "Unknown"

get_output_with_data(P, o) ==
  from_tx_hash(o) \in DOMAIN P.entries /\ o \in output_pts(from_tx_hash(o))

\* CellProvider::cell of PoolMap; "panic" is the failure of expect("output")
cell(P, o) ==
  IF o \in DOMAIN P.edges.inputs THEN "Dead"
  ELSE IF o \in DOMAIN P.edges.outputs
       THEN (IF P.edges.outputs[o] # None THEN "Dead"
             ELSE IF get_output_with_data(P, o) THEN "Live"
             ELSE "panic")
       ELSE "Unknown"

\* PoolCell::cell (rbf = false) and PoolCell::cell_rbf
pool_cell(P, o, rbf) ==
  IF ~rbf /\ o \in DOMAIN P.edges.inputs THEN "Dead"
  ELSE IF get_output_with_data(P, o) THEN "Live"
  ELSE "Unknown"

\* OverlayCellProvider: the pool first, the snapshot for what it does not know
overlay_cell(P, ch, o, rbf) ==
  IF pool_cell(P, o, rbf) # "Unknown" THEN pool_cell(P, o, rbf)
  ELSE snapshot_cell(ch, o)

\* TRUE when every input and every cell dep of t resolves to a live cell
resolve_tx_from_pool(P, ch, t, rbf) ==
  \A o \in input_pts(t) \cup cell_deps(t) : overlay_cell(P, ch, o, rbf) = "Live"

Reject(id, reason, arg) == [id |-> id, reason |-> reason, arg |-> arg]

\* what a query of the block assembler was given and returned
Packaged(args, exclusion, ids, txs, size, cycles) ==
  [args |-> args, exclusion |-> exclusion, ids |-> ids, txs |-> txs,
   size |-> size, cycles |-> cycles]

\* the last operation: its name, arguments, result and reject callbacks, and
\* for a query of the block assembler what it returned
Result(op, id, status, ret, rejects) ==
  [op |-> op, id |-> id, status |-> status, ret |-> ret, rejects |-> rejects,
   out |-> Packaged(<<>>, {}, {}, <<>>, 0, 0)]

(***************************************************************************)
(* TxPool operations, as functions of the pool                             *)
(***************************************************************************)
Pool == [entries |-> entries, edges |-> edges, links |-> links]

\* the transactions of the chain (chain lists them in the order of commit)
Committed == {chain[i] : i \in DOMAIN chain}

SetPool(P) ==
  /\ entries' = P.entries
  /\ edges' = P.edges
  /\ links' = P.links

\* PoolMap::set_entry: re-index on the status axis
set_entry(P, id, status) ==
  [P EXCEPT !.entries[id].status = status]

\* gap_rtx without the check of the current status
gap_rtx_unchecked(P, id) ==
  IF id \in DOMAIN P.entries
  THEN [ret |-> "Ok", pool |-> set_entry(P, id, "Gap")]
  ELSE [ret |-> "Malformed", pool |-> P]

\* result [ret, pool]
gap_rtx(P, id) ==
  IF id \in DOMAIN P.entries
  THEN IF P.entries[id].status = "Gap"
       THEN [ret |-> "Duplicated", pool |-> P]
       ELSE [ret |-> "Ok", pool |-> set_entry(P, id, "Gap")]
  ELSE [ret |-> "Malformed", pool |-> P]

\* proposed_rtx that re-inserts a fresh entry instead of re-indexing
proposed_rtx_reinsert(P, id) ==
  IF id \in DOMAIN P.entries
  THEN IF P.entries[id].status = "Proposed"
       THEN [ret |-> "Duplicated", pool |-> P]
       ELSE [ret |-> "Ok",
             pool |-> insert_entry(P, id,
                         reset_statistic_state(id, P.entries[id].inner), "Proposed")]
  ELSE [ret |-> "Malformed", pool |-> P]

proposed_rtx(P, id) ==
  IF id \in DOMAIN P.entries
  THEN IF P.entries[id].status = "Proposed"
       THEN [ret |-> "Duplicated", pool |-> P]
       ELSE [ret |-> "Ok", pool |-> set_entry(P, id, "Proposed")]
  ELSE [ret |-> "Malformed", pool |-> P]

\* remove_entry_and_descendants for every id of ids, over every order of
\* iteration of the set: the set of the possible resulting pools
RECURSIVE remove_each_and_descendants(_, _)
remove_each_and_descendants(Ps, ids) ==
  IF ids = {} THEN Ps
  ELSE UNION {remove_each_and_descendants(
                 {remove_entry_and_descendants(P, id).pool : P \in Ps}, ids \ {id}) :
              id \in ids}

\* remove_entry for every id of ids, over every order of iteration
RECURSIVE remove_each(_, _)
remove_each(Ps, ids) ==
  IF ids = {} THEN Ps
  ELSE UNION {remove_each({remove_entry(P, id) : P \in Ps}, ids \ {id}) : id \in ids}

\* resolve_conflict that leaves the entries citing the input as a cell dep
resolve_conflict_input_no_deps(R, i) ==
  LET P == R.pool
      byInput == IF i \in DOMAIN P.edges.inputs THEN {P.edges.inputs[i]} ELSE {}
      P0 == [P EXCEPT !.edges.inputs = Del(@, i)]
      r1 == IF byInput = {} THEN [removed |-> EmptyMap, pool |-> P0]
            ELSE remove_entry_and_descendants(P0, CHOOSE x \in byInput : TRUE)
  IN  [pool |-> r1.pool,
       rejects |-> R.rejects \cup {Reject(x, "Dead", i) : x \in DOMAIN r1.removed}]

\* PoolMap::resolve_conflict, one input after the other; result [pool, rejects]
resolve_conflict_input(R, i) ==
  LET P == R.pool
      byInput == IF i \in DOMAIN P.edges.inputs THEN {P.edges.inputs[i]} ELSE {}
      P0 == [P EXCEPT !.edges.inputs = Del(@, i)]
      r1 == IF byInput = {} THEN [removed |-> EmptyMap, pool |-> P0]
            ELSE remove_entry_and_descendants(P0, CHOOSE x \in byInput : TRUE)
      P1 == r1.pool
      byDeps == IF i \in DOMAIN P1.edges.deps THEN P1.edges.deps[i] ELSE {}
      P2 == [P1 EXCEPT !.edges.deps = Del(@, i)]
      removed2 == UNION {{x} \cup calc_descendants(P2.links, x) : x \in byDeps}
                    \cap DOMAIN P2.entries
      P3 == CHOOSE Q \in remove_each_and_descendants({P2}, byDeps) : TRUE
  IN  [pool |-> P3,
       rejects |-> R.rejects
          \cup {Reject(x, "Dead", i) : x \in (DOMAIN r1.removed) \cup removed2}]

RECURSIVE resolve_conflict_loop(_, _)
resolve_conflict_loop(R, ins) ==
  IF ins = {} THEN R
  ELSE LET i == CHOOSE x \in ins : TRUE
       IN  resolve_conflict_loop(resolve_conflict_input(R, i), ins \ {i})

resolve_conflict(P, t) ==
  resolve_conflict_loop([pool |-> P, rejects |-> {}], input_pts(t))

\* PoolMap::resolve_conflict_header_dep; result [pool, rejects]
resolve_conflict_header_dep(P, headers) ==
  LET ids == {x \in DOMAIN P.edges.header_deps :
                 P.edges.header_deps[x] \cap headers # {}}
      removed == UNION {{x} \cup calc_descendants(P.links, x) : x \in ids}
                   \cap DOMAIN P.entries
      P1 == CHOOSE Q \in remove_each_and_descendants({P}, ids) : TRUE
  IN  [pool |-> P1, rejects |-> {Reject(x, "InvalidHeader", <<>>) : x \in removed}]

\* LruCache::put on committed_txs_hash_cache: the cache lists its pairs from
\* the least recently used to the most recently used
lru_put(c, id, hash) ==
  LET others == IF \E i \in DOMAIN c : c[i].id = id
                THEN LET k == CHOOSE i \in DOMAIN c : c[i].id = id
                     IN  SubSeq(c, 1, k - 1) \o SubSeq(c, k + 1, Len(c))
                ELSE c
      c1 == Append(others, [id |-> id, hash |-> hash])
  IN  IF Len(c1) > COMMITTED_HASH_CACHE_SIZE THEN Tail(c1) ELSE c1

\* LruCache::peek
lru_peek(c, id) ==
  IF \E i \in DOMAIN c : c[i].id = id
  THEN c[CHOOSE i \in DOMAIN c : c[i].id = id].hash
  ELSE None

\* TxPool::remove_committed_tx; result [pool, rejects]
remove_committed_tx(P, t) ==
  resolve_conflict(remove_entry(P, t), t)

\* TxPool::remove_committed_txs for the transactions of one block (here one
\* transaction); result [pool, rejects]
remove_committed_txs(P, t, detached_headers) ==
  LET r1 == remove_committed_tx(P, t)
      r2 == IF detached_headers # {}
            THEN resolve_conflict_header_dep(r1.pool, detached_headers)
            ELSE [pool |-> r1.pool, rejects |-> {}]
  IN  [pool |-> r2.pool, rejects |-> r1.rejects \cup r2.rejects]

\* one turn of the loop of TxPool::remove_committed_txs: r is the result of
\* remove_committed_tx(tx), then the hash of tx goes to the cache; R and the
\* result are [pool, rejects, cache]
remove_committed_txs_step(R, r, tx) ==
  [pool |-> r.pool,
   rejects |-> R.rejects \cup r.rejects,
   cache |-> lru_put(R.cache, tx, tx_hash(tx))]

RECURSIVE remove_committed_txs_loop(_, _)
remove_committed_txs_loop(R, txs) ==
  IF txs = <<>> THEN R
  ELSE remove_committed_txs_loop(
          remove_committed_txs_step(R, remove_committed_tx(R.pool, Head(txs)), Head(txs)),
          Tail(txs))

\* the end of TxPool::remove_committed_txs: r2 is the result of
\* resolve_conflict_header_dep after the loop left R
remove_committed_txs_end(R, r2) ==
  [pool |-> r2.pool, rejects |-> R.rejects \cup r2.rejects, cache |-> R.cache]

\* resolve_conflict_header_dep when there are detached headers
resolve_detached_headers(P, detached_headers) ==
  IF detached_headers # {}
  THEN resolve_conflict_header_dep(P, detached_headers)
  ELSE [pool |-> P, rejects |-> {}]

remove_committed_txs_headers(R, detached_headers) ==
  remove_committed_txs_end(R, resolve_detached_headers(R.pool, detached_headers))

\* TxPool::remove_committed_txs for the transactions of one block, in the
\* order of the block; result [pool, rejects, cache]
remove_committed_txs_block(P, c, txs, detached_headers) ==
  remove_committed_txs_headers(
     remove_committed_txs_loop([pool |-> P, rejects |-> {}, cache |-> c], txs),
     detached_headers)

\* the filter of remove_expired with <= in the place of <
expired_le(P, t_now) ==
  {x \in DOMAIN P.entries : Expiry + P.entries[x].inner.timestamp <= t_now}

\* TxPool::remove_expired: the set of the possible resulting pools
expired(P, t_now) ==
  {x \in DOMAIN P.entries : Expiry + P.entries[x].inner.timestamp < t_now}

remove_expired(P, t_now) ==
  remove_each({P}, expired(P, t_now))

\* the entries removed for a detached proposal go back to Pending, in the
\* order of their ancestors_count (any order among equal counts): the set of
\* the possible resulting pools
RECURSIVE readd_pending(_, _, _)
readd_pending(Ps, remaining, removed) ==
  IF remaining = {} THEN Ps
  ELSE LET first == {x \in remaining : \A y \in remaining :
                        removed[x].inner.ancestors_count
                          <= removed[y].inner.ancestors_count}
       IN  UNION {readd_pending(
                     {add_entry(P, x, reset_statistic_state(x, removed[x].inner),
                                "Pending").pool : P \in Ps},
                     remaining \ {x}, removed) : x \in first}

\* remove_by_detached_proposal that puts the entries back with add_gap
remove_by_detached_proposal_id_gap(P, id) ==
  IF id \in DOMAIN P.entries /\ P.entries[id].status # "Pending"
  THEN LET r == remove_entry_and_descendants(P, id)
       IN  {[Q EXCEPT !.entries = [x \in DOMAIN @ |->
                IF x \in DOMAIN r.removed THEN [@[x] EXCEPT !.status = "Gap"]
                ELSE @[x]]] :
              Q \in readd_pending({r.pool}, DOMAIN r.removed, r.removed)}
  ELSE {P}

\* remove_by_detached_proposal that puts back the entry without its
\* descendants
remove_by_detached_proposal_id_alone(P, id) ==
  IF id \in DOMAIN P.entries /\ P.entries[id].status # "Pending"
  THEN LET r == remove_entry_and_descendants(P, id)
       IN  readd_pending({r.pool}, {id}, r.removed)
  ELSE {P}

remove_by_detached_proposal_id(P, id) ==
  IF id \in DOMAIN P.entries /\ P.entries[id].status # "Pending"
  THEN LET r == remove_entry_and_descendants(P, id)
       IN  readd_pending({r.pool}, DOMAIN r.removed, r.removed)
  ELSE {P}

\* TxPool::remove_by_detached_proposal handles one id after the other
RECURSIVE remove_by_detached_proposal(_, _)
remove_by_detached_proposal(Ps, ids) ==
  IF ids = <<>> THEN Ps
  ELSE remove_by_detached_proposal(
          UNION {remove_by_detached_proposal_id(P, Head(ids)) : P \in Ps}, Tail(ids))

\* TxPool::remove_tx; result [ret, pool]
remove_tx(P, id) ==
  LET r == remove_entry_and_descendants(P, id)
  IN  [ret |-> (DOMAIN r.removed # {}), pool |-> r.pool]

\* the transactions of detached blocks come back to the pool as Pending, in
\* the order of the chain, when they resolve
RECURSIVE readd_detached(_, _, _, _)
readd_detached(P, ch, ids, t_now) ==
  IF ids = <<>> THEN P
  ELSE LET t == Head(ids)
           P1 == IF resolve_tx_from_pool(P, ch, t, FALSE)
                 THEN add_entry(P, t, NewEntry(t, t_now), "Pending").pool
                 ELSE P
       IN  readd_detached(P1, ch, Tail(ids), t_now)

(***************************************************************************)
(* Eviction by size                                                        *)
(***************************************************************************)
\* the sum of a field (size, fee or cycles) over the transactions ids
RECURSIVE sum_of(_, _)
sum_of(field, ids) ==
  IF ids = {} THEN 0
  ELSE LET x == CHOOSE y \in ids : TRUE IN field[x] + sum_of(field, ids \ {x})

\* PoolMap::total_tx_size: the sum of the sizes of the live entries
total_tx_size(P) == sum_of(TxSize, DOMAIN P.entries)

\* EvictKey: the fee rate, in shannons per KB, of the entry together with
\* its descendants
evict_fee_rate(P, id) ==
  (sum_of(TxFee, {id} \cup calc_descendants(P.links, id)) * KB)
    \div sum_of(TxSize, {id} \cup calc_descendants(P.links, id))

\* EvictKey order: a is ranked below b (a lower fee rate, then a later
\* timestamp)
evict_key_below(P, a, b) ==
  \/ evict_fee_rate(P, a) < evict_fee_rate(P, b)
  \/ /\ evict_fee_rate(P, a) = evict_fee_rate(P, b)
     /\ P.entries[a].inner.timestamp > P.entries[b].inner.timestamp

get_by_status(P, status) == {x \in DOMAIN P.entries : P.entries[x].status = status}

\* PoolMap::next_evict_entry: the entries of the status no entry of the
\* status is ranked below (the empty set is None, several ids are a tie)
next_evict_entry(P, status) ==
  {x \in get_by_status(P, status) :
     \A y \in get_by_status(P, status) : ~evict_key_below(P, y, x)}

\* the candidate of limit_size taken over the entries of every status at once
limit_size_next_any_status(P) ==
  {x \in DOMAIN P.entries : \A y \in DOMAIN P.entries : ~evict_key_below(P, y, x)}

\* the closure next_evict_entry of limit_size: Pending, or else Gap, or else
\* Proposed
limit_size_next(P) ==
  IF next_evict_entry(P, "Pending") # {} THEN next_evict_entry(P, "Pending")
  ELSE IF next_evict_entry(P, "Gap") # {} THEN next_evict_entry(P, "Gap")
  ELSE next_evict_entry(P, "Proposed")

\* one eviction: r is remove_entry_and_descendants(R.pool, id); every removed
\* entry is reported with Reject::Full (the text of the message is left out)
limit_size_evict(R, id, r) ==
  [pool |-> r.pool,
   reports |-> R.reports (+) SetToBag({Reject(x, "Full", <<>>) : x \in DOMAIN r.removed}),
   steps |-> Append(R.steps, [root |-> id, before |-> R.pool, after |-> r.pool,
                              removed |-> DOMAIN r.removed]),
   diverged |-> FALSE]

\* limit_size with an if in the place of the while
limit_size_loop_once(R, max) ==
  IF total_tx_size(R.pool) > max /\ limit_size_next(R.pool) # {}
  THEN {limit_size_evict(R, id, remove_entry_and_descendants(R.pool, id)) :
          id \in limit_size_next(R.pool)}
  ELSE {R}

\* the loop of TxPool::limit_size: the set of the possible results.  With the
\* total over the limit and no candidate the loop of the code spins for ever
\* (diverged).
RECURSIVE limit_size_loop(_, _)
limit_size_loop(R, max) ==
  IF total_tx_size(R.pool) > max
  THEN IF limit_size_next(R.pool) = {}
       THEN {[R EXCEPT !.diverged = TRUE]}
       ELSE UNION {limit_size_loop(
                      limit_size_evict(R, id, remove_entry_and_descendants(R.pool, id)),
                      max) : id \in limit_size_next(R.pool)}
  ELSE {R}

limit_size(P, cfg) ==
  limit_size_loop([pool |-> P, reports |-> EmptyBag, steps |-> <<>>,
                   diverged |-> FALSE], cfg.max_tx_pool_size)

(***************************************************************************)
(* Block template: proposals and transactions to commit                    *)
(***************************************************************************)
\* PoolMap::fill_proposals over every order of iteration of the entries of
\* the status: the set of the possible values of proposals
RECURSIVE fill_proposals(_, _, _, _)
fill_proposals(limit, exclusion, proposals, remaining) ==
  IF remaining = {} \/ Cardinality(proposals) = limit THEN {proposals}
  ELSE UNION {fill_proposals(limit, exclusion,
                             IF id \notin exclusion THEN proposals \cup {id}
                             ELSE proposals,
                             remaining \ {id}) : id \in remaining}

\* get_proposals that fills from the Gap entries too
get_proposals_gap(P, limit, exclusion) ==
  fill_proposals(limit, exclusion, {},
                 get_by_status(P, "Pending") \cup get_by_status(P, "Gap"))

get_proposals(P, limit, exclusion) ==
  fill_proposals(limit, exclusion, {}, get_by_status(P, "Pending"))

\* TxPool::package_proposals: uncles is the set of the proposal sets of the
\* uncles
package_proposals(P, proposals_limit, uncles) ==
  get_proposals(P, proposals_limit, UNION uncles)

\* AncestorsScoreSortKey: a is ranked below b (ancestors_fee / ancestors_size,
\* then fee / size, then the short id)
score_below(P, a, b) ==
  \/ P.entries[a].inner.ancestors_fee * P.entries[b].inner.ancestors_size
       < P.entries[b].inner.ancestors_fee * P.entries[a].inner.ancestors_size
  \/ /\ P.entries[a].inner.ancestors_fee * P.entries[b].inner.ancestors_size
         = P.entries[b].inner.ancestors_fee * P.entries[a].inner.ancestors_size
     /\ \/ TxFee[a] * TxSize[b] < TxFee[b] * TxSize[a]
        \/ TxFee[a] * TxSize[b] = TxFee[b] * TxSize[a] /\ a < b

\* the ids from the highest score to the lowest
RECURSIVE score_sorted(_, _)
score_sorted(P, ids) ==
  IF ids = {} THEN <<>>
  ELSE LET top == CHOOSE x \in ids : \A y \in ids \ {x} : score_below(P, y, x)
       IN  <<top>> \o score_sorted(P, ids \ {top})

\* score_sorted_iter without the filter on the status
score_sorted_iter_any_status(P) == score_sorted(P, DOMAIN P.entries)

\* MultiIndexPoolEntryMap::score_sorted_iter: the Proposed entries from the
\* highest score to the lowest
score_sorted_iter(P) == score_sorted(P, get_by_status(P, "Proposed"))

\* PoolMap::get_proposed
get_proposed(P, id) ==
  IF id \in DOMAIN P.entries /\ P.entries[id].status = "Proposed" THEN id
  ELSE None

\* CommitTxsScanner: the candidate with its Proposed ancestors that are not
\* in the list yet
scan_package(P, c, fetched) ==
  {c} \cup {x \in calc_ancestors(P.links, c) :
             x \notin fetched /\ get_proposed(P, x) # None}

\* the entries of a package, every entry after its ancestors
RECURSIVE sort_by_ancestors(_, _)
sort_by_ancestors(P, ids) ==
  IF ids = {} THEN <<>>
  ELSE LET first == CHOOSE x \in ids : calc_ancestors(P.links, x) \cap ids = {}
       IN  <<first>> \o sort_by_ancestors(P, ids \ {first})

\* the package joins the list when the totals stay within the limits, and
\* is skipped otherwise
scan_try(P, R, pkg, size_limit, cycles_limit) ==
  IF /\ R.size + sum_of(TxSize, pkg) <= size_limit
     /\ R.cycles + sum_of(TxCycles, pkg) <= cycles_limit
  THEN [txs |-> R.txs \o sort_by_ancestors(P, pkg),
        size |-> R.size + sum_of(TxSize, pkg),
        cycles |-> R.cycles + sum_of(TxCycles, pkg)]
  ELSE R

scan_candidate(P, R, c, size_limit, cycles_limit) ==
  IF \E i \in DOMAIN R.txs : R.txs[i] = c THEN R
  ELSE scan_try(P, R, scan_package(P, c, {R.txs[i] : i \in DOMAIN R.txs}),
                size_limit, cycles_limit)

\* CommitTxsScanner::txs_to_commit over the candidates in the order of
\* score_sorted_iter
RECURSIVE txs_to_commit(_, _, _, _, _)
txs_to_commit(P, R, candidates, size_limit, cycles_limit) ==
  IF candidates = <<>> THEN R
  ELSE txs_to_commit(P,
          scan_candidate(P, R, Head(candidates), size_limit, cycles_limit),
          Tail(candidates), size_limit, cycles_limit)

\* TxPool::package_txs: [txs, size, cycles]
package_txs(P, max_block_cycles, txs_size_limit) ==
  txs_to_commit(P, [txs |-> <<>>, size |-> 0, cycles |-> 0],
                score_sorted_iter(P), txs_size_limit, max_block_cycles)

(***************************************************************************)
(* Replace by fee                                                          *)
(***************************************************************************)
\* Option::None / Err(Overflow) for a Capacity
NoCapacity == -1

\* FeeRate::fee: the fee of size bytes at rate shannons per KB
fee_rate_fee(rate, size) == (rate * size) \div KB

\* Capacity::safe_add: checked addition
safe_add(a, b) ==
  IF a = NoCapacity \/ b = NoCapacity THEN NoCapacity
  ELSE IF a + b > CapacityMax THEN NoCapacity
  ELSE a + b

\* conflicts.values().try_fold(Capacity::zero(), safe_add)
RECURSIVE fold_fees(_, _)
fold_fees(acc, ids) ==
  IF ids = {} THEN acc
  ELSE LET x == CHOOSE y \in ids : TRUE
       IN  fold_fees(safe_add(acc, TxFee[x]), ids \ {x})

\* enable_rbf with < in the place of >
enable_rbf_lt(cfg) == cfg.min_rbf_rate < cfg.min_fee_rate

enable_rbf(cfg) == cfg.min_rbf_rate > cfg.min_fee_rate

\* calculate_min_replace_fee without the extra fee of the replacement
calculate_min_replace_fee_no_extra(cfg, conflicts, size) ==
  fold_fees(0, conflicts)

\* the sum of the fees of the distinct conflicts plus the fee of size bytes
\* at min_rbf_rate; NoCapacity on overflow
calculate_min_replace_fee(cfg, conflicts, size) ==
  LET extra_rbf_fee == fee_rate_fee(cfg.min_rbf_rate, size)
      replaced_sum_fee == fold_fees(0, conflicts)
  IN  safe_add(replaced_sum_fee, extra_rbf_fee)

\* min_replace_fee that leaves out the fees of the descendants
min_replace_fee_alone(P, cfg, t) ==
  IF ~enable_rbf(cfg) THEN NoCapacity
  ELSE calculate_min_replace_fee(cfg, {t}, TxSize[t])

\* TxPool::min_replace_fee of a live entry t
min_replace_fee(P, cfg, t) ==
  IF ~enable_rbf(cfg) THEN NoCapacity
  ELSE LET descendants == calc_descendants(P.links, t) \cap DOMAIN P.entries
       IN  calculate_min_replace_fee(cfg, {t} \cup descendants, TxSize[t])

\* PoolMap::find_conflict_tx: the entries that consume an input of t
find_conflict_tx(P, t) ==
  {P.edges.inputs[o] : o \in input_pts(t) \cap DOMAIN P.edges.inputs}

\* Snapshot::transaction_exists
transaction_exists(ch, h) == h = 0 \/ h \in ch

RbfResult(ret, arg, conflicts) == [ret |-> ret, arg |-> arg, conflicts |-> conflicts]

\* rule 2 of check_rbf that takes the outputs of pool entries for confirmed
unconfirmed_inputs_pool_outputs(P, ch, t, conflict_ids) ==
  LET inputs == UNION {input_pts(c) : c \in conflict_ids}
  IN  \E pt \in input_pts(t) :
         /\ pt \notin inputs
         /\ ~transaction_exists(ch, from_tx_hash(pt))
         /\ from_tx_hash(pt) \notin DOMAIN P.entries

\* rule 2 of check_rbf: TRUE when the new transaction has an unconfirmed input
unconfirmed_inputs(P, ch, t, conflict_ids) ==
  LET inputs == UNION {input_pts(c) : c \in conflict_ids}
  IN  \E pt \in input_pts(t) :
         pt \notin inputs /\ ~transaction_exists(ch, from_tx_hash(pt))

\* the loop of check_rbf over the conflicts, in every order of iteration:
\* the set of the possible outcomes, a rejection or the entries to replace
RECURSIVE check_rbf_loop(_, _, _, _, _)
check_rbf_loop(P, t, remaining, replace_count, all_conflicted) ==
  IF remaining = {} THEN {RbfResult("pass", <<>>, all_conflicted)}
  ELSE UNION {
    LET descendants == calc_descendants(P.links, c)
        count == replace_count + Cardinality(descendants) + 1
        ancestors == calc_ancestors(P.links, t)
        found == descendants \cap DOMAIN P.entries
    IN  IF count > MAX_REPLACEMENT_CANDIDATES
        THEN {RbfResult("Tx conflict with too many txs",
                        <<count, MAX_REPLACEMENT_CANDIDATES>>, {})}
        ELSE IF descendants \cap ancestors # {}
        THEN {RbfResult("Tx ancestors have common with conflict Tx descendants",
                        <<>>, {})}
        ELSE IF \E e \in found : \E pt \in input_pts(t) : from_tx_hash(pt) = e
        THEN {RbfResult("new Tx contains inputs in descendants of to be replaced Tx",
                        <<>>, {})}
        ELSE check_rbf_loop(P, t, remaining \ {c}, count, all_conflicted \cup found)
    : c \in remaining}

\* the checks of check_rbf after the loop, without the check of the cell deps
check_rbf_tail_fee_only(cfg, t, conflict_ids, all_conflicted) ==
  LET min_fee == calculate_min_replace_fee(cfg, all_conflicted, TxSize[t])
  IN  IF min_fee = NoCapacity
      THEN RbfResult("calculate_min_replace_fee failed", <<>>, {})
      ELSE IF TxFee[t] < min_fee
      THEN RbfResult("Tx's current fee is X, expect it to >= Y to replace old txs",
                     <<TxFee[t], min_fee>>, {})
      ELSE RbfResult("Ok", <<>>, conflict_ids)

\* the checks of check_rbf after the loop
check_rbf_tail(cfg, t, conflict_ids, all_conflicted) ==
  IF \E e \in all_conflicted : \E pt \in cell_deps(t) : from_tx_hash(pt) = e
  THEN RbfResult("new Tx contains cell deps from conflicts", <<>>, {})
  ELSE LET min_fee == calculate_min_replace_fee(cfg, all_conflicted, TxSize[t])
       IN  IF min_fee = NoCapacity
           THEN RbfResult("calculate_min_replace_fee failed", <<>>, {})
           ELSE IF TxFee[t] < min_fee
           THEN RbfResult("Tx's current fee is X, expect it to >= Y to replace old txs",
                          <<TxFee[t], min_fee>>, {})
           ELSE RbfResult("Ok", <<>>, conflict_ids)

\* check_rbf without the assertion that replace by fee is enabled
check_rbf_unasserted(P, ch, cfg, t) ==
  LET conflict_ids == find_conflict_tx(P, t)
  IN  IF conflict_ids = {} THEN {RbfResult("Ok", <<>>, {})}
      ELSE IF unconfirmed_inputs(P, ch, t, conflict_ids)
      THEN {RbfResult("new Tx contains unconfirmed inputs", <<>>, {})}
      ELSE {IF r.ret = "pass"
            THEN check_rbf_tail(cfg, t, conflict_ids, r.conflicts)
            ELSE r :
            r \in check_rbf_loop(P, t, conflict_ids, 0, conflict_ids)}

\* TxPool::check_rbf: the set of the possible results
check_rbf(P, ch, cfg, t) ==
  IF ~enable_rbf(cfg) THEN {RbfResult("Abort", <<>>, {})}
  ELSE LET conflict_ids == find_conflict_tx(P, t)
       IN  IF conflict_ids = {} THEN {RbfResult("Ok", <<>>, {})}
           ELSE IF unconfirmed_inputs(P, ch, t, conflict_ids)
           THEN {RbfResult("new Tx contains unconfirmed inputs", <<>>, {})}
           ELSE {IF r.ret = "pass"
                 THEN check_rbf_tail(cfg, t, conflict_ids, r.conflicts)
                 ELSE r :
                 r \in check_rbf_loop(P, t, conflict_ids, 0, conflict_ids)}

\* submission of transaction t: admitted as Pending when it resolves against
\* pool and chain; when it resolves only as a replacement (an out point it
\* needs is consumed in the pool) and replace by fee is enabled, check_rbf
\* decides, and on success every conflict is removed with its descendants
\* before t is admitted.  The set of the possible results [ret, pool, rejects]
submit_tx(P, ch, cfg, t, t_now) ==
  IF resolve_tx_from_pool(P, ch, t, FALSE)
  THEN {[ret |-> "Ok", pool |-> add_entry(P, t, NewEntry(t, t_now), "Pending").pool,
         rejects |-> {}]}
  ELSE IF /\ enable_rbf(cfg)
          /\ resolve_tx_from_pool(P, ch, t, TRUE)
          /\ find_conflict_tx(P, t) # {}
  THEN UNION {
         IF r.ret = "Ok"
         THEN {[ret |-> "Ok",
                pool |-> add_entry(Q, t, NewEntry(t, t_now), "Pending").pool,
                rejects |-> {Reject(x, "RBFRejected", <<t>>) :
                                x \in DOMAIN P.entries \ DOMAIN Q.entries}] :
               Q \in remove_each_and_descendants({P}, r.conflicts)}
         ELSE {[ret |-> r.ret, pool |-> P, rejects |-> {Reject(t, r.ret, r.arg)}]}
         : r \in check_rbf(P, ch, cfg, t)}
  ELSE {[ret |-> "Resolve", pool |-> P, rejects |-> {Reject(t, "Resolve", <<>>)}]}

(***************************************************************************)
(* VerifyQueue: the entries in the order of insertion                      *)
(***************************************************************************)
\* is_full with > in the place of >=
is_full_gt(q) == Len(q) > DEFAULT_MAX_VERIFY_TRANSACTIONS

is_full(q) == Len(q) >= DEFAULT_MAX_VERIFY_TRANSACTIONS

contains_key(q, id) == \E i \in DOMAIN q : q[i].id = id

\* MultiIndexVerifyEntryMap::remove_by_id
remove_by_id(q, id) ==
  IF contains_key(q, id)
  THEN LET k == CHOOSE i \in DOMAIN q : q[i].id = id
       IN  SubSeq(q, 1, k - 1) \o SubSeq(q, k + 1, Len(q))
  ELSE q

\* VerifyQueue::remove_tx: [ret, queue], ret is the id of the removed entry
queue_remove_tx(q, id) ==
  [ret |-> IF contains_key(q, id) THEN id ELSE None, queue |-> remove_by_id(q, id)]

\* VerifyQueue::remove_txs
RECURSIVE queue_remove_txs(_, _)
queue_remove_txs(q, ids) ==
  IF ids = {} THEN q
  ELSE LET id == CHOOSE x \in ids : TRUE
       IN  queue_remove_txs(remove_by_id(q, id), ids \ {id})

\* peek that gives the entry with the largest added_time
peek_newest(q) ==
  {q[i].id : i \in {k \in DOMAIN q :
                      \A j \in DOMAIN q : q[k].added_time >= q[j].added_time}}

\* VerifyQueue::peek: the ids iter_by_added_time may give first (no id is
\* None; the order among equal added_time is not fixed)
peek(q) ==
  {q[i].id : i \in {k \in DOMAIN q :
                      \A j \in DOMAIN q : q[k].added_time <= q[j].added_time}}

\* pop_first that returns the first entry and leaves it in the queue
pop_first_keep(q) ==
  IF peek(q) = {} THEN {[ret |-> None, queue |-> q]}
  ELSE {[ret |-> id, queue |-> q] : id \in peek(q)}

\* VerifyQueue::pop_first: the set of the possible [ret, queue]
pop_first(q) ==
  IF peek(q) = {} THEN {[ret |-> None, queue |-> q]}
  ELSE {queue_remove_tx(q, id) : id \in peek(q)}

\* add_tx with the check of is_full before the check of contains_key
add_tx_full_first(q, id, t_now) ==
  IF is_full(q) THEN [ret |-> "Full", queue |-> q]
  ELSE IF contains_key(q, id) THEN [ret |-> "Ok(false)", queue |-> q]
  ELSE [ret |-> "Ok(true)", queue |-> Append(q, [id |-> id, added_time |-> t_now])]

\* VerifyQueue::add_tx: [ret, queue]
add_tx(q, id, t_now) ==
  IF contains_key(q, id) THEN [ret |-> "Ok(false)", queue |-> q]
  ELSE IF is_full(q) THEN [ret |-> "Full", queue |-> q]
  ELSE [ret |-> "Ok(true)", queue |-> Append(q, [id |-> id, added_time |-> t_now])]

\* the outcome of each submission after the reject callbacks
record_rejects(res, rejects) ==
  [x \in DOMAIN res |->
     IF \E r \in rejects : r.id = x
     THEN (CHOOSE r \in rejects : r.id = x).reason
     ELSE res[x]]

\* admission of a verified entry by the service: the set of the possible
\* [ret, pool, rejects]
after_process(P, ch, cfg, t, t_now) ==
  IF t \in DOMAIN P.entries
  THEN {[ret |-> "Duplicated", pool |-> P, rejects |-> {}]}
  ELSE submit_tx(P, ch, cfg, t, t_now)

\* no traversal of the Links is under way
CalcIdle ==
  [pc |-> "idle", stage |-> {}, relation_ids |-> {}, relation |-> "Parents",
   seed |-> {}]

\* VerifyMgr::new with the workers ws: every worker starts in Resume, no
\* command was sent on the command channel of the service and the
\* cancellation token has not fired.  issued records whether the service
\* has sent a command or fired the token since.
VerifyMgrNew(ws) ==
  [workers |-> ws, pc |-> "loop", command |-> "Resume", seen |-> TRUE,
   signal_exit |-> FALSE, issued |-> FALSE]

(***************************************************************************)
(* Actions                                                                 *)
(***************************************************************************)
Init ==
  /\ entries = EmptyPool.entries
  /\ edges = EmptyPool.edges
  /\ links = EmptyPool.links
  /\ chain = <<>>
  /\ now = 0
  /\ last = Result("new", 0, "", "Ok", {})
  /\ config = DefaultConfig
  /\ cache = <<>>
  /\ queue = <<>>
  /\ pc = [w \in Workers |-> "idle"]
  /\ inflight = [w \in Workers |-> None]
  /\ results = [t \in AllTxIds |-> ""]
  /\ queue_tx = [value |-> 0, seen |-> Workers]
  /\ command_rx = [w \in Workers |-> [value |-> "Resume", seen |-> TRUE]]
  /\ worker_status = [w \in Workers |-> "Resume"]
  /\ mgr = VerifyMgrNew(Workers)
  /\ calc = CalcIdle

\* add_pending / add_gap / add_proposed of a resolved transaction, or of a
\* transaction the pool already holds
AddEntry(t, status) ==
  /\ t \notin Committed
  /\ t \in DOMAIN entries \/ resolve_tx_from_pool(Pool, Committed, t, FALSE)
  /\ LET r == add_entry(Pool, t, NewEntry(t, now), status)
     IN  /\ SetPool(r.pool)
         /\ last' = Result("add_entry", t, status, r.ret, {})
  /\ UNCHANGED <<calc, chain, now, config, cache, verify_vars>>

GapRtx(t) ==
  /\ LET r == gap_rtx(Pool, t)
     IN  /\ SetPool(r.pool)
         /\ last' = Result("gap_rtx", t, "", r.ret, {})
  /\ UNCHANGED <<calc, chain, now, config, cache, verify_vars>>

ProposedRtx(t) ==
  /\ LET r == proposed_rtx(Pool, t)
     IN  /\ SetPool(r.pool)
         /\ last' = Result("proposed_rtx", t, "", r.ret, {})
  /\ UNCHANGED <<calc, chain, now, config, cache, verify_vars>>

RemoveTx(t) ==
  /\ LET r == remove_tx(Pool, t)
     IN  /\ SetPool(r.pool)
         /\ last' = Result("remove_tx", t, "", IF r.ret THEN "true" ELSE "false", {})
  /\ UNCHANGED <<calc, chain, now, config, cache, verify_vars>>

\* a block with transaction t is attached to the chain: what
\* remove_committed_txs does to the pool (CommitBlock follows the blocks of
\* several transactions and committed_txs_hash_cache)
RemoveCommittedTxs(t, detached_headers) ==
  /\ t \notin Committed
  /\ \A o \in input_pts(t) \cup cell_deps(t) : snapshot_cell(Committed, o) = "Live"
  /\ LET r == remove_committed_txs(Pool, t, detached_headers)
     IN  /\ SetPool(r.pool)
         /\ last' = Result("remove_committed_txs", t, "", "Ok", r.rejects)
  /\ chain' = Append(chain, t)
  /\ UNCHANGED <<calc, now, config, cache, verify_vars>>

\* the blocks of the last k transactions are detached from the chain
ReaddDetached(k) ==
  /\ k \in 1 .. Len(chain)
  /\ LET keep == SubSeq(chain, 1, Len(chain) - k)
         ids == SubSeq(chain, Len(chain) - k + 1, Len(chain))
     IN  /\ SetPool(readd_detached(Pool, {keep[i] : i \in DOMAIN keep}, ids, now))
         /\ chain' = keep
  /\ last' = Result("readd_detached", 0, "", "Ok", {})
  /\ UNCHANGED <<calc, now, config, cache, verify_vars>>

\* remove_by_detached_proposal of one detached proposal id (a call with
\* several ids is the sequence of the calls with each id)
RemoveByDetachedProposal(id) ==
  /\ \E P \in remove_by_detached_proposal({Pool}, <<id>>) : SetPool(P)
  /\ last' = Result("remove_by_detached_proposal", id,
                    IF id \in DOMAIN entries THEN entries[id].status ELSE "",
                    "Ok", {})
  /\ UNCHANGED <<calc, chain, now, config, cache, verify_vars>>

RemoveExpired ==
  /\ \E P \in remove_expired(Pool, now) : SetPool(P)
  /\ last' = Result("remove_expired", 0, "", "Ok",
                    {Reject(x, "Expiry", <<entries[x].inner.timestamp>>) :
                        x \in expired(Pool, now)})
  /\ UNCHANGED <<calc, chain, now, config, cache, verify_vars>>

Tick ==
  /\ now < MaxTime
  /\ now' = now + 1
  /\ last' = Result("tick", 0, "", "Ok", {})
  /\ UNCHANGED <<calc, entries, edges, links, chain, config, cache, verify_vars>>

Next ==
  \/ \E t \in TxIds, status \in Statuses : AddEntry(t, status)
  \/ \E t \in TxIds : GapRtx(t)
  \/ \E t \in TxIds : ProposedRtx(t)
  \/ \E t \in TxIds : RemoveTx(t)
  \/ \E t \in TxIds, hs \in SUBSET Headers : RemoveCommittedTxs(t, hs)
  \/ \E k \in 1 .. Cardinality(TxIds) : ReaddDetached(k)
  \/ \E id \in TxIds : RemoveByDetachedProposal(id)
  \/ RemoveExpired
  \/ Tick

Spec == Init /\ [][Next]_vars

\* the pool of SpecRbf starts empty, with replace by fee enabled or not
InitRbf ==
  /\ entries = EmptyPool.entries
  /\ edges = EmptyPool.edges
  /\ links = EmptyPool.links
  /\ chain = <<>>
  /\ now = 0
  /\ last = Result("new", 0, "", "Ok", {})
  /\ config \in Configs
  /\ cache = <<>>
  /\ queue = <<>>
  /\ pc = [w \in Workers |-> "idle"]
  /\ inflight = [w \in Workers |-> None]
  /\ results = [t \in AllTxIds |-> ""]
  /\ queue_tx = [value |-> 0, seen |-> Workers]
  /\ command_rx = [w \in Workers |-> [value |-> "Resume", seen |-> TRUE]]
  /\ worker_status = [w \in Workers |-> "Resume"]
  /\ mgr = VerifyMgrNew(Workers)
  /\ calc = CalcIdle

Submit(t) ==
  /\ t \notin DOMAIN entries
  /\ t \notin Committed
  /\ \E r \in submit_tx(Pool, Committed, config, t, now) :
        /\ SetPool(r.pool)
        /\ last' = Result("submit", t, "Pending", r.ret, r.rejects)
  /\ UNCHANGED <<calc, chain, now, config, cache, verify_vars>>

\* the entries of SpecRbf that change status, and those that get committed
RbfStatusIds == {1, 2}
RbfCommitIds == {1}

NextRbf ==
  \/ \E t \in AllTxIds : Submit(t)
  \/ \E t \in RbfStatusIds : GapRtx(t)
  \/ \E t \in RbfStatusIds : ProposedRtx(t)
  \/ \E t \in RbfCommitIds : RemoveCommittedTxs(t, {})

SpecRbf == InitRbf /\ [][NextRbf]_vars

\* the blocks of SpecCommit: up to MaxBlockTxs distinct transactions
Blocks ==
  {b \in UNION {[1 .. n -> TxIds] : n \in 1 .. MaxBlockTxs} :
      \A i, j \in DOMAIN b : i # j => b[i] # b[j]}

\* every transaction of the block is new to the chain and resolves against
\* the chain and the transactions before it in the block
RECURSIVE block_valid(_, _)
block_valid(ch, txs) ==
  IF txs = <<>> THEN TRUE
  ELSE LET t == Head(txs)
       IN  /\ t \notin ch
           /\ \A o \in input_pts(t) \cup cell_deps(t) : snapshot_cell(ch, o) = "Live"
           /\ block_valid(ch \cup {t}, Tail(txs))

\* remove_committed_txs for the block txs attached to the chain
CommitBlock(txs, detached_headers) ==
  /\ block_valid(Committed, txs)
  /\ \E r \in {remove_committed_txs_block(Pool, cache, txs, detached_headers)} :
        /\ SetPool(r.pool)
        /\ cache' = r.cache
        /\ last' = Result("remove_committed_txs_block", 0, "", "Ok", r.rejects)
  /\ chain' = chain \o txs
  /\ UNCHANGED <<calc, now, config, verify_vars>>

NextCommit ==
  \/ \E t \in TxIds : AddEntry(t, "Pending")
  \/ \E txs \in Blocks, hs \in SUBSET Headers : CommitBlock(txs, hs)
  \/ \E k \in 1 .. Cardinality(TxIds) : ReaddDetached(k)

SpecCommit == Init /\ [][NextCommit]_vars

(***************************************************************************)
(* Eviction by size: entries are added, change status and are removed as   *)
(* time passes, and limit_size is called in any state.                     *)
(***************************************************************************)
LimitSize ==
  /\ \E r \in limit_size(Pool, config) :
        /\ SetPool(r.pool)
        /\ last' = Result("limit_size", 0, "",
                          IF r.diverged THEN "Diverge" ELSE "Ok",
                          BagToSet(r.reports))
  /\ UNCHANGED <<calc, chain, now, config, cache, verify_vars>>

NextLimit ==
  \/ \E t \in TxIds, status \in Statuses : AddEntry(t, status)
  \/ \E t \in TxIds : GapRtx(t)
  \/ \E t \in TxIds : ProposedRtx(t)
  \/ \E t \in TxIds : RemoveTx(t)
  \/ LimitSize
  \/ Tick

SpecLimit == Init /\ [][NextLimit]_vars

(***************************************************************************)
(* Submissions through the verify queue and the workers of VerifyMgr.      *)
(* Transactions 1, 4 and 12 spend the same out point with fees that differ *)
(* by more than the fee of a replacement.                                  *)
(***************************************************************************)
VerifyIds == {1, 4, 12}

\* a submission: it is resolved and checked against the pool, then put on
\* the verify queue
SubmitTx(t) ==
  /\ t \notin DOMAIN entries
  /\ t \notin Committed
  /\ \E r \in submit_tx(Pool, Committed, config, t, now) :
        \E a \in {add_tx(queue, t, now)} :
           IF r.ret = "Ok"
           THEN /\ queue' = a.queue
                /\ results' = [results EXCEPT
                                 ![t] = IF a.ret = "Full" THEN "Full" ELSE "Queued"]
                /\ last' = Result("add_tx", t, "", a.ret, {})
           ELSE /\ queue' = queue
                /\ results' = [results EXCEPT ![t] = r.ret]
                /\ last' = Result("submit", t, "", r.ret, {})
  /\ UNCHANGED <<calc, entries, edges, links, chain, now, config, cache, pc, inflight,
                 mgr_vars>>

\* Worker::process_inner: the peek under the read lock
WorkerPeek(w) ==
  /\ pc[w] = "idle"
  /\ pc' = [pc EXCEPT ![w] = IF peek(queue) = {} THEN "idle" ELSE "peeked"]
  /\ last' = Result("peek", w, "", IF peek(queue) = {} THEN "None" ELSE "Some", {})
  /\ UNCHANGED <<calc, entries, edges, links, chain, now, config, cache, queue,
                 inflight, results, mgr_vars>>

\* Worker::process_inner: pop_first under the write lock
WorkerPop(w) ==
  /\ pc[w] = "peeked"
  /\ \E r \in pop_first(queue) :
        /\ queue' = r.queue
        /\ inflight' = [inflight EXCEPT ![w] = r.ret]
        /\ pc' = [pc EXCEPT ![w] = IF r.ret = None THEN "idle" ELSE "verify"]
        /\ last' = Result("pop_first", r.ret, "", IF r.ret = None THEN "None" ELSE "Some", {})
  /\ UNCHANGED <<calc, entries, edges, links, chain, now, config, cache, results,
                 mgr_vars>>

\* Worker::process_inner: run_verify_tx and after_process
WorkerVerify(w) ==
  /\ pc[w] = "verify"
  /\ \E r \in after_process(Pool, Committed, config, inflight[w], now) :
        /\ SetPool(r.pool)
        /\ results' = record_rejects([results EXCEPT ![inflight[w]] = r.ret],
                                     r.rejects)
        /\ last' = Result("process", inflight[w], "Pending", r.ret, r.rejects)
  /\ inflight' = [inflight EXCEPT ![w] = None]
  /\ pc' = [pc EXCEPT ![w] = "idle"]
  /\ UNCHANGED <<calc, chain, now, config, cache, queue, mgr_vars>>

QueueRemoveTx(t) ==
  /\ \E r \in {queue_remove_tx(queue, t)} :
        /\ queue' = r.queue
        /\ last' = Result("queue_remove_tx", t, "", IF r.ret = None THEN "None" ELSE "Some", {})
  /\ UNCHANGED <<calc, entries, edges, links, chain, now, config, cache, pc,
                 inflight, results, mgr_vars>>

QueueRemoveTxs(ids) ==
  /\ queue' = queue_remove_txs(queue, ids)
  /\ last' = Result("queue_remove_txs", 0, "", "Ok", {})
  /\ UNCHANGED <<calc, entries, edges, links, chain, now, config, cache, pc,
                 inflight, results, mgr_vars>>

\* VerifyQueue::clear
QueueClear ==
  /\ queue' = <<>>
  /\ last' = Result("queue_clear", 0, "", "Ok", {})
  /\ UNCHANGED <<calc, entries, edges, links, chain, now, config, cache, pc,
                 inflight, results, mgr_vars>>

NextVerify ==
  \/ \E t \in VerifyIds : SubmitTx(t)
  \/ \E w \in Workers : WorkerPeek(w)
  \/ \E w \in Workers : WorkerPop(w)
  \/ \E w \in Workers : WorkerVerify(w)
  \/ \E t \in VerifyIds : QueueRemoveTx(t)
  \/ \E ids \in SUBSET VerifyIds : QueueRemoveTxs(ids)
  \/ QueueClear
  \/ Tick

SpecVerify == InitRbf /\ [][NextVerify]_vars

(***************************************************************************)
(* VerifyMgr and its workers.  The pool is left aside: a worker holds the  *)
(* entry it popped while run_verify_tx and after_process run.  A watch     *)
(* channel keeps the last value sent and, for each receiver, whether it    *)
(* has seen that value; pc[w] is "idle" at the top of the loop of          *)
(* Worker::start, "recv" at the entry of process_inner, "peeked" between   *)
(* the peek and the pop, "verify" in run_verify_tx, "exit" after the loop  *)
(* and "none" for a worker that VerifyMgr::new did not create.             *)
(***************************************************************************)
\* VerifyMgr::new creates num_cpus::get() workers
InitWorkers ==
  /\ entries = EmptyPool.entries
  /\ edges = EmptyPool.edges
  /\ links = EmptyPool.links
  /\ chain = <<>>
  /\ now = 0
  /\ last = Result("new", 0, "", "Ok", {})
  /\ config = DefaultConfig
  /\ cache = <<>>
  /\ queue = <<>>
  /\ inflight = [w \in Workers |-> None]
  /\ results = [t \in AllTxIds |-> ""]
  /\ queue_tx = [value |-> 0, seen |-> Workers]
  /\ command_rx = [w \in Workers |-> [value |-> "Resume", seen |-> TRUE]]
  /\ worker_status = [w \in Workers |-> "Resume"]
  /\ calc = CalcIdle
  /\ \E num_cpus \in Workers :
        /\ mgr = VerifyMgrNew({w \in Workers : w <= num_cpus})
        /\ pc = [w \in Workers |-> IF w <= num_cpus THEN "idle" ELSE "none"]

\* VerifyQueue::add_tx: the length is sent on the watch channel after an
\* insertion, and only then
AddTx(t) ==
  /\ \E a \in {add_tx(queue, t, now)} :
        /\ queue' = a.queue
        /\ queue_tx' = IF a.ret = "Ok(true)"
                       THEN [value |-> Len(a.queue), seen |-> {}]
                       ELSE queue_tx
  /\ UNCHANGED <<calc, entries, edges, links, chain, now, last, config, cache, pc,
                 inflight, results, command_rx, worker_status, mgr>>

\* Worker::start, in Resume or in Suspend: command_rx.changed()
WorkerCommandChanged(w) ==
  /\ pc[w] = "idle"
  /\ worker_status[w] \in {"Resume", "Suspend"}
  /\ ~command_rx[w].seen
  /\ worker_status' = [worker_status EXCEPT ![w] = command_rx[w].value]
  /\ command_rx' = [command_rx EXCEPT ![w].seen = TRUE]
  /\ UNCHANGED <<calc, entries, edges, links, chain, now, last, config, cache,
                 queue, pc, inflight, results, queue_tx, mgr>>

\* a worker that takes the queue-ready signal whatever its status
WorkerReady_any_status(w) ==
  /\ pc[w] = "idle"
  /\ worker_status[w] # "Stop"
  /\ w \notin queue_tx.seen
  /\ queue_tx' = [queue_tx EXCEPT !.seen = @ \cup {w}]
  /\ pc' = [pc EXCEPT ![w] = "recv"]
  /\ UNCHANGED <<calc, entries, edges, links, chain, now, last, config, cache,
                 queue, inflight, results, command_rx, worker_status,
                 mgr>>

\* Worker::start, in Resume: the queue-ready signal
WorkerReady(w) ==
  /\ pc[w] = "idle"
  /\ worker_status[w] = "Resume"
  /\ w \notin queue_tx.seen
  /\ queue_tx' = [queue_tx EXCEPT !.seen = @ \cup {w}]
  /\ pc' = [pc EXCEPT ![w] = "recv"]
  /\ UNCHANGED <<calc, entries, edges, links, chain, now, last, config, cache,
                 queue, inflight, results, command_rx, worker_status,
                 mgr>>

\* Worker::start, on Stop: break
WorkerBreak(w) ==
  /\ pc[w] = "idle"
  /\ worker_status[w] = "Stop"
  /\ pc' = [pc EXCEPT ![w] = "exit"]
  /\ UNCHANGED <<calc, entries, edges, links, chain, now, last, config, cache,
                 queue, inflight, results, mgr_vars>>

\* Worker::process_inner: the peek under the read lock
ProcessInnerPeek(w) ==
  /\ pc[w] = "recv"
  /\ pc' = [pc EXCEPT ![w] = IF peek(queue) = {} THEN "idle" ELSE "peeked"]
  /\ UNCHANGED <<calc, entries, edges, links, chain, now, last, config, cache,
                 queue, inflight, results, mgr_vars>>

\* Worker::process_inner: pop_first under the write lock
ProcessInnerPop(w) ==
  /\ pc[w] = "peeked"
  /\ \E r \in pop_first(queue) :
        /\ queue' = r.queue
        /\ inflight' = [inflight EXCEPT ![w] = r.ret]
        /\ pc' = [pc EXCEPT ![w] = IF r.ret = None THEN "idle" ELSE "verify"]
  /\ UNCHANGED <<calc, entries, edges, links, chain, now, last, config, cache,
                 results, mgr_vars>>

\* Worker::process_inner: run_verify_tx and after_process.  The verifier
\* polls the command and does not go on while it is Suspend.
ProcessInnerVerify(w) ==
  /\ pc[w] = "verify"
  /\ command_rx[w].value # "Suspend"
  /\ inflight' = [inflight EXCEPT ![w] = None]
  /\ pc' = [pc EXCEPT ![w] = "idle"]
  /\ UNCHANGED <<calc, entries, edges, links, chain, now, last, config, cache,
                 queue, results, mgr_vars>>

\* the service sends a command on the channel VerifyMgr listens to
SendCommand(command) ==
  /\ mgr' = [mgr EXCEPT !.command = command, !.seen = FALSE, !.issued = TRUE]
  /\ UNCHANGED <<calc, entries, edges, links, chain, now, last, config, cache,
                 queue, pc, inflight, results, queue_tx, command_rx,
                 worker_status>>

\* the cancellation token fires
Cancel ==
  /\ ~mgr.signal_exit
  /\ mgr' = [mgr EXCEPT !.signal_exit = TRUE, !.issued = TRUE]
  /\ UNCHANGED <<calc, entries, edges, links, chain, now, last, config, cache,
                 queue, pc, inflight, results, queue_tx, command_rx,
                 worker_status>>

\* send_child_command that stops after the first worker
send_child_command_first(rx, ws, command) ==
  [w \in DOMAIN rx |->
     IF w \in ws /\ \A v \in ws : w <= v
     THEN [value |-> command, seen |-> FALSE]
     ELSE rx[w]]

\* VerifyMgr::send_child_command
send_child_command(rx, ws, command) ==
  [w \in DOMAIN rx |->
     IF w \in ws THEN [value |-> command, seen |-> FALSE] ELSE rx[w]]

\* VerifyMgr::start_loop: command_rx.changed()
MgrForward ==
  /\ mgr.pc = "loop"
  /\ ~mgr.seen
  /\ command_rx' = send_child_command(command_rx, mgr.workers, mgr.command)
  /\ mgr' = [mgr EXCEPT !.seen = TRUE]
  /\ UNCHANGED <<calc, entries, edges, links, chain, now, last, config, cache,
                 queue, pc, inflight, results, queue_tx,
                 worker_status>>

\* VerifyMgr::start_loop: signal_exit.cancelled()
MgrStop ==
  /\ mgr.pc = "loop"
  /\ mgr.signal_exit
  /\ command_rx' = send_child_command(command_rx, mgr.workers, "Stop")
  /\ mgr' = [mgr EXCEPT !.pc = "join"]
  /\ UNCHANGED <<calc, entries, edges, links, chain, now, last, config, cache,
                 queue, pc, inflight, results, queue_tx,
                 worker_status>>

\* VerifyMgr::start_loop: the join handles are awaited one after the other
MgrJoin ==
  /\ mgr.pc = "join"
  /\ \A w \in mgr.workers : pc[w] = "exit"
  /\ mgr' = [mgr EXCEPT !.pc = "exit"]
  /\ UNCHANGED <<calc, entries, edges, links, chain, now, last, config, cache,
                 queue, pc, inflight, results, queue_tx, command_rx,
                 worker_status>>

\* VerifyQueue::remove_tx (one id), remove_txs and clear (every id): the
\* entries are removed and nothing is sent on the watch channel
RemoveTxs(ids) ==
  /\ queue' = queue_remove_txs(queue, ids)
  /\ UNCHANGED <<calc, entries, edges, links, chain, now, last, config, cache,
                 pc, inflight, results, mgr_vars>>

NextWorkers ==
  \/ \E t \in VerifyIds : AddTx(t)
  \/ \E w \in Workers : WorkerCommandChanged(w)
  \/ \E w \in Workers : WorkerReady(w)
  \/ \E w \in Workers : WorkerBreak(w)
  \/ \E w \in Workers : ProcessInnerPeek(w)
  \/ \E w \in Workers : ProcessInnerPop(w)
  \/ \E w \in Workers : ProcessInnerVerify(w)
  \/ \E ids \in SUBSET VerifyIds : RemoveTxs(ids)
  \/ \E command \in {"Suspend", "Resume"} : SendCommand(command)
  \/ Cancel
  \/ MgrForward
  \/ MgrStop
  \/ MgrJoin

SpecWorkers == InitWorkers /\ [][NextWorkers]_vars

\* The tasks of the manager and of the workers are scheduled by the
\* runtime: a task that can go on does go on.  select! takes a ready branch
\* at random, so a branch that is ready again and again is taken.
FairWorkers ==
  /\ SpecWorkers
  /\ WF_vars(MgrStop) /\ WF_vars(MgrJoin)
  /\ \A w \in Workers :
        /\ SF_vars(WorkerCommandChanged(w)) /\ SF_vars(WorkerReady(w))
        /\ WF_vars(WorkerBreak(w)) /\ WF_vars(ProcessInnerPeek(w))
        /\ WF_vars(ProcessInnerPop(w)) /\ WF_vars(ProcessInnerVerify(w))

(***************************************************************************)
(* The pool as the block assembler reads it: entries are added, promoted   *)
(* and removed, and the assembler asks for proposals and for transactions  *)
(* to commit.                                                              *)
(***************************************************************************)
\* the largest proposals_limit
MaxProposalsLimit == 2

PackageProposals(proposals_limit, uncles) ==
  /\ \E ids \in package_proposals(Pool, proposals_limit, uncles) :
        last' = [Result("package_proposals", proposals_limit, "", "Ok", {})
                   EXCEPT !.out = Packaged(<<proposals_limit>>, UNION uncles,
                                           ids, <<>>, 0, 0)]
  /\ UNCHANGED <<calc, entries, edges, links, chain, now, config, cache, verify_vars>>

PackageTxs(max_block_cycles, txs_size_limit) ==
  /\ \E r \in {package_txs(Pool, max_block_cycles, txs_size_limit)} :
        last' = [Result("package_txs", 0, "", "Ok", {})
                   EXCEPT !.out = Packaged(<<max_block_cycles, txs_size_limit>>,
                                           {}, {}, r.txs, r.size, r.cycles)]
  /\ UNCHANGED <<calc, entries, edges, links, chain, now, config, cache, verify_vars>>

NextPackage ==
  \/ \E t \in TxIds, status \in Statuses : AddEntry(t, status)
  \/ \E t \in TxIds : GapRtx(t)
  \/ \E t \in TxIds : ProposedRtx(t)
  \/ \E t \in TxIds : RemoveTx(t)
  \* each uncle carries one of three sets of proposals
  \/ \E l \in 0 .. MaxProposalsLimit, uncles \in SUBSET {{1}, {2, 3}, {4, 5}} :
        PackageProposals(l, uncles)
  \* the limits of a block on the cycles and on the size of its transactions
  \/ \E c \in {30, 150}, sl \in {3, 7, 15} : PackageTxs(c, sl)

SpecPackage == Init /\ [][NextPackage]_vars

(***************************************************************************)
(* Structural sanity of the model                                          *)
(***************************************************************************)
TypeOK ==
  /\ DOMAIN entries \subseteq AllTxIds
  /\ DOMAIN links = DOMAIN entries
  /\ \A x \in DOMAIN links :
        links[x].parents \cup links[x].children \subseteq DOMAIN entries
  /\ Committed \subseteq AllTxIds /\ Cardinality(Committed) = Len(chain)
  /\ now \in 0 .. MaxTime
  /\ config \in Configs

(***************************************************************************)
(* Properties                                                              *)
(***************************************************************************)
RECURSIVE Sum(_, _)
Sum(f, S) ==
  IF S = {} THEN 0
  ELSE LET x == CHOOSE y \in S : TRUE IN f[x] + Sum(f, S \ {x})

SizeOf == [t \in AllTxIds |-> TxSize[t]]
FeeOf == [t \in AllTxIds |-> TxFee[t]]
CyclesOf == [t \in AllTxIds |-> TxCycles[t]]

\* C1: Edges.inputs maps outpoint o to short id s if and only if the live
\* entry s has o among its input outpoints.
C1_InputsExact ==
  /\ \A o \in DOMAIN edges.inputs :
        /\ edges.inputs[o] \in DOMAIN entries
        /\ o \in input_pts(edges.inputs[o])
  /\ \A s \in DOMAIN entries : \A o \in input_pts(s) :
        o \in DOMAIN edges.inputs /\ edges.inputs[o] = s

AggregatesOf(t, closure) ==
  [ancestors_count |-> Cardinality(closure) + 1,
   ancestors_size |-> Sum(SizeOf, closure \cup {t}),
   ancestors_fee |-> Sum(FeeOf, closure \cup {t}),
   ancestors_cycles |-> Sum(CyclesOf, closure \cup {t})]

AggregatesExact(t) ==
  LET e == entries[t].inner
      a == AggregatesOf(t, calc_ancestors(links, t))
  IN  /\ e.ancestors_count = a.ancestors_count
      /\ e.ancestors_size = a.ancestors_size
      /\ e.ancestors_fee = a.ancestors_fee
      /\ e.ancestors_cycles = a.ancestors_cycles

\* C2: every live entry has ancestors_count equal to the size of its ancestor
\* closure plus one, and ancestors_size / fee / cycles equal to the sums over
\* that closure and itself.
C2_AggregatesExact == \A t \in DOMAIN entries : AggregatesExact(t)

\* C3: no Proposed entry has ancestors_count greater than max_ancestors_count.
C3_ProposedWithinCap ==
  \A t \in DOMAIN entries :
     entries[t].status = "Proposed" =>
        entries[t].inner.ancestors_count <= MaxAncestorsCount

\* C10: every input outpoint of every live entry is a key of Edges.outputs
\* or live in the chain snapshot.
C10_InputsAvailable ==
  \A t \in DOMAIN entries : \A o \in input_pts(t) :
     o \in DOMAIN edges.outputs \/ snapshot_cell(Committed, o) = "Live"

\* the ancestors add_entry finds in the pool for a new transaction t
InPoolAncestors(t) ==
  calc_relation_ids(links, find_parents(Pool, t), "Parents")

C1_Witness ==
  /\ last.op = "remove_committed_txs"
  /\ last.rejects # {}
  /\ DOMAIN edges.inputs # {}

\* C4: add_entry(e, Proposed) returns Err(ExceededMaximumAncestorsCount)
\* exactly when the count of e with its in-pool ancestors exceeds
\* max_ancestors_count, and then entries, Edges and Links are unchanged;
\* with status Pending or Gap it never fails.
C4_AddEntryCap ==
  [][(last'.op = "add_entry" /\ last'.id \notin DOMAIN entries) =>
       /\ last'.ret = "ExceededMaximumAncestorsCount"
            <=> (/\ last'.status = "Proposed"
                 /\ 1 + Cardinality(InPoolAncestors(last'.id)) > MaxAncestorsCount)
       /\ last'.ret = "ExceededMaximumAncestorsCount"
            => UNCHANGED <<entries, edges, links>>
       /\ last'.ret # "ExceededMaximumAncestorsCount"
            => (last'.ret = "Ok(true)" /\ last'.id \in DOMAIN entries')]_vars

C4_Witness ==
  /\ last.op = "add_entry"
  /\ last.ret = "ExceededMaximumAncestorsCount"
  /\ DOMAIN entries # {}

\* C5: proposed_rtx of a Pending entry whose ancestors_count exceeds
\* max_ancestors_count fails with ExceededMaximumAncestorsCount and the entry
\* stays Pending.
C5_PromoteOverCapRejected ==
  [][(/\ last'.op = "proposed_rtx"
      /\ last'.id \in DOMAIN entries
      /\ entries[last'.id].status = "Pending"
      /\ entries[last'.id].inner.ancestors_count > MaxAncestorsCount) =>
       /\ last'.ret = "ExceededMaximumAncestorsCount"
       /\ entries'[last'.id].status = "Pending"]_vars

C7_RtxResults ==
  [][(last'.op \in {"gap_rtx", "proposed_rtx"}) =>
       LET id == last'.id
           target == IF last'.op = "gap_rtx" THEN "Gap" ELSE "Proposed"
       IN  IF id \notin DOMAIN entries
           THEN last'.ret = "Malformed" /\ UNCHANGED <<entries, edges, links>>
           ELSE IF entries[id].status = target
           THEN last'.ret = "Duplicated" /\ UNCHANGED <<entries, edges, links>>
           ELSE /\ last'.ret = "Ok"
                /\ id \in DOMAIN entries'
                /\ entries'[id].status = target]_vars

\* gap_rtx answered Duplicated right after it answered Ok
C7_Witness ==
  /\ last.op = "gap_rtx"
  /\ last.ret = "Duplicated"
  /\ last.id \in DOMAIN entries
  /\ entries[last.id].inner.ancestors_count > 1

\* C8: a status change through set_entry modifies only the status of the
\* named entry (Edges, Links, the aggregates and every other entry are
\* unchanged), and set_entry(id, s) of an entry with status s changes nothing.
C8_SetEntryFrame ==
  [][/\ (last'.op \in {"gap_rtx", "proposed_rtx"}) =>
          /\ edges' = edges
          /\ links' = links
          /\ DOMAIN entries' = DOMAIN entries
          /\ \A x \in DOMAIN entries :
                /\ entries'[x].inner = entries[x].inner
                /\ x # last'.id => entries'[x] = entries[x]
     /\ \A x \in DOMAIN entries : set_entry(Pool, x, entries[x].status) = Pool]_vars

C8_Witness ==
  /\ last.op = "proposed_rtx"
  /\ last.ret = "Ok"
  /\ links[last.id].parents # {}
  /\ links[last.id].children # {}

StatusChanged(t) ==
  /\ t \in DOMAIN entries
  /\ t \in DOMAIN entries'
  /\ entries'[t].status # entries[t].status

\* C9 as stated: an entry reaches Proposed only from Gap, and goes back to
\* Pending only through remove_by_detached_proposal.
C9_ProposedOnlyAfterGap ==
  [][\A t \in TxIds :
        StatusChanged(t) =>
           /\ entries'[t].status = "Proposed" => entries[t].status = "Gap"
           /\ entries'[t].status = "Pending"
                => last'.op = "remove_by_detached_proposal"]_vars

\* C9, amended: the status of a live entry changes only by gap_rtx (to Gap),
\* by proposed_rtx (to Proposed, from Pending or from Gap) and by
\* remove_by_detached_proposal (to Pending); an entry admitted by
\* add_pending / add_gap / add_proposed starts with the status of that call.
C9_Lifecycle ==
  [][\A t \in TxIds :
        /\ StatusChanged(t) =>
              \/ /\ entries'[t].status = "Gap"
                 /\ last'.op = "gap_rtx" /\ last'.id = t
              \/ /\ entries'[t].status = "Proposed"
                 /\ last'.op = "proposed_rtx" /\ last'.id = t
              \/ /\ entries'[t].status = "Pending"
                 /\ last'.op = "remove_by_detached_proposal"
        /\ (t \notin DOMAIN entries /\ t \in DOMAIN entries' /\ last'.op = "add_entry")
              => (last'.id = t /\ entries'[t].status = last'.status)]_vars

\* a Proposed entry with a descendant went back to Pending
C9_Witness ==
  /\ last.op = "remove_by_detached_proposal"
  /\ last.id \in DOMAIN entries
  /\ entries[last.id].status = "Pending"
  /\ links[last.id].children # {}
  /\ entries[last.id].inner.timestamp < now

(***************************************************************************)
(* Links: parents and acyclicity                                           *)
(***************************************************************************)
\* the live entries of which an output is an input or a cell dep of t
OutputParents(t) ==
  {p \in DOMAIN entries :
      \E o \in input_pts(t) \cup cell_deps(t) : from_tx_hash(o) = p}

\* the live entries that cite as a cell dep an out point that t consumes
DepParents(t) ==
  {p \in DOMAIN entries \ {t} : cell_deps(p) \cap input_pts(t) # {}}

\* C11: Links.parents of every live entry is exactly the set of the live
\* entries of which some output is referenced by an input or by a cell dep
\* of the entry.
C11_ParentsExact ==
  \A t \in DOMAIN entries : links[t].parents = OutputParents(t)

\* C11, amended: Links.parents of a live entry holds every live entry of
\* which an output is referenced by an input or a cell dep of the entry, and
\* besides these only live entries that cite as a cell dep an out point the
\* entry consumes.
C11_ParentsWithDepCiters ==
  \A t \in DOMAIN entries :
     /\ OutputParents(t) \subseteq links[t].parents
     /\ links[t].parents \subseteq OutputParents(t) \cup DepParents(t)

\* a parent was added after its child, and an entry has a parent by a cell dep
C11_Witness ==
  /\ last.op = "add_entry" /\ last.ret = "Ok(true)"
  /\ last.id \in DOMAIN links
  /\ links[last.id].children # {}
  /\ \E t \in DOMAIN entries :
        \E p \in links[t].parents :
           /\ p \in OutputParents(t)
           /\ \A o \in input_pts(t) : from_tx_hash(o) # p

\* C12: the parent relation of Links is acyclic: no entry is its own
\* ancestor or its own descendant.
C12_LinksAcyclic ==
  \A t \in DOMAIN links :
     /\ t \notin calc_ancestors(links, t)
     /\ t \notin calc_descendants(links, t)

\* an entry with an ancestor that is not its parent
C12_Witness ==
  \E t \in DOMAIN links :
     calc_ancestors(links, t) \ links[t].parents # {}

(***************************************************************************)
(* Replace by fee: check_rbf on the reachable pools                        *)
(***************************************************************************)
\* the transactions check_rbf is called with: not in the pool, resolved as a
\* replacement, in conflict with a live entry
RbfCandidates ==
  {t \in AllTxIds \ (DOMAIN entries \cup Committed) :
      /\ resolve_tx_from_pool(Pool, Committed, t, TRUE)
      /\ find_conflict_tx(Pool, t) # {}}

CheckRbf(t) == check_rbf(Pool, Committed, config, t)

\* the conflicts of t with their descendants, each entry once
ToReplace(t) ==
  find_conflict_tx(Pool, t)
    \cup UNION {calc_descendants(links, c) : c \in find_conflict_tx(Pool, t)}

Rule2Passes(t) ==
  ~unconfirmed_inputs(Pool, Committed, t, find_conflict_tx(Pool, t))

\* C13: given that the earlier rules pass, check_rbf rejects with "Tx
\* conflict with too many txs" if and only if the number of distinct entries
\* among the conflicts and their descendants exceeds
\* MAX_REPLACEMENT_CANDIDATES.
C13_TooManyIffOverMax ==
  enable_rbf(config) =>
    \A t \in RbfCandidates :
       Rule2Passes(t) =>
          \A r \in CheckRbf(t) :
             (r.ret = "Tx conflict with too many txs")
                <=> (Cardinality(ToReplace(t)) > MAX_REPLACEMENT_CANDIDATES)

MinReplaceFeeOf(t) ==
  Sum(FeeOf, ToReplace(t)) + fee_rate_fee(config.min_rbf_rate, TxSize[t])

FeeMessage == "Tx's current fee is X, expect it to >= Y to replace old txs"

\* C14: check_rbf accepts a replacement only if the fee of the new
\* transaction is at least the sum of the fees of the conflicts and of their
\* descendants, each counted once, plus min_rbf_rate.fee(size); the fee
\* rejection reports that bound, and an overflow of the sum is a rejection.
C14_FeeBound ==
  enable_rbf(config) =>
    \A t \in RbfCandidates : \A r \in CheckRbf(t) :
       /\ r.ret = "Ok" => TxFee[t] >= MinReplaceFeeOf(t)
       /\ r.ret = FeeMessage =>
             /\ r.arg = <<TxFee[t], MinReplaceFeeOf(t)>>
             /\ TxFee[t] < MinReplaceFeeOf(t)
       /\ MinReplaceFeeOf(t) > CapacityMax => r.ret # "Ok"
       /\ r.ret = "calculate_min_replace_fee failed" =>
             MinReplaceFeeOf(t) > CapacityMax

\* a replacement of an entry with a descendant was rejected for its fee
C14_Witness ==
  /\ last.op = "submit" /\ last.ret = FeeMessage
  /\ Cardinality(ToReplace(last.id)) >= 2
  /\ last.rejects = {Reject(last.id, FeeMessage,
                            <<TxFee[last.id], MinReplaceFeeOf(last.id)>>)}

\* C15: with a non-empty conflict set check_rbf rejects with "new Tx
\* contains unconfirmed inputs" whenever an input of the new transaction is
\* neither an input of a conflicting entry nor an output of a transaction
\* on chain; with an empty conflict set it returns Ok with the empty set.
C15_UnconfirmedInputs ==
  enable_rbf(config) =>
    \A t \in AllTxIds \ (DOMAIN entries \cup Committed) :
       LET conflicts == {c \in DOMAIN entries : input_pts(c) \cap input_pts(t) # {}}
       IN  IF conflicts = {}
           THEN CheckRbf(t) = {RbfResult("Ok", <<>>, {})}
           ELSE (\E o \in input_pts(t) :
                    /\ \A c \in conflicts : o \notin input_pts(c)
                    /\ from_tx_hash(o) \notin Committed \cup {0})
                => CheckRbf(t) = {RbfResult("new Tx contains unconfirmed inputs", <<>>, {})}

\* a replacement that spends an output of a pool entry was rejected
C15_Witness ==
  /\ last.op = "submit" /\ last.ret = "new Tx contains unconfirmed inputs"
  /\ \E o \in input_pts(last.id) : from_tx_hash(o) \in DOMAIN entries
  /\ last.id \notin DOMAIN entries

\* the in-pool ancestors of a transaction that is not in the pool yet
NewTxAncestors(t) == calc_relation_ids(links, find_parents(Pool, t), "Parents")

ConflictDescendants(t) ==
  UNION {calc_descendants(links, c) : c \in find_conflict_tx(Pool, t)}

\* C16: when the earlier rules pass, check_rbf rejects with "Tx ancestors
\* have common with conflict Tx descendants" whenever the in-pool ancestors
\* of the new transaction intersect the descendants of a conflicting entry.
C16_AncestorsOverlapRejected ==
  enable_rbf(config) =>
    \A t \in RbfCandidates :
       (/\ Rule2Passes(t)
        /\ Cardinality(ToReplace(t)) <= MAX_REPLACEMENT_CANDIDATES
        /\ NewTxAncestors(t) \cap ConflictDescendants(t) # {})
       => \A r \in CheckRbf(t) :
             r.ret = "Tx ancestors have common with conflict Tx descendants"

InputInDescendants(t) ==
  \E pt \in input_pts(t) : from_tx_hash(pt) \in ConflictDescendants(t)

DepInConflicts(t) ==
  \E pt \in cell_deps(t) : from_tx_hash(pt) \in ToReplace(t)

\* C17: check_rbf returns Ok only if no input of the new transaction spends
\* an output of a descendant of a conflict and no cell dep of it points at
\* an output of a conflict or of a descendant; the two rejections are given
\* for these violations.
C17_NoReuseOfReplaced ==
  enable_rbf(config) =>
    \A t \in RbfCandidates : \A r \in CheckRbf(t) :
       /\ r.ret = "Ok" => ~InputInDescendants(t) /\ ~DepInConflicts(t)
       /\ r.ret = "new Tx contains inputs in descendants of to be replaced Tx"
             => InputInDescendants(t)
       /\ r.ret = "new Tx contains cell deps from conflicts"
             => DepInConflicts(t) /\ ~InputInDescendants(t)

\* a replacement with a cell dep on a descendant of its conflict was rejected
C17_Witness ==
  /\ last.op = "submit" /\ last.ret = "new Tx contains cell deps from conflicts"
  /\ \E pt \in cell_deps(last.id) : from_tx_hash(pt) \in ConflictDescendants(last.id)

\* C18: when a replacement passes check_rbf, every conflict and every
\* descendant of a conflict is removed from the pool and reported with
\* RBFRejected, the new transaction is admitted as Pending, and afterwards
\* no other live entry consumes an input of the new transaction.
C18_ReplacementRemovesConflicts ==
  [][(/\ last'.op = "submit" /\ last'.ret = "Ok"
      /\ find_conflict_tx(Pool, last'.id) # {})
     => LET t == last'.id
        IN  /\ ToReplace(t) \cap DOMAIN entries' = {}
            /\ last'.rejects = {Reject(x, "RBFRejected", <<t>>) : x \in ToReplace(t)}
            /\ t \in DOMAIN entries' /\ entries'[t].status = "Pending"
            /\ \A x \in DOMAIN entries' \ {t} : input_pts(x) \cap input_pts(t) = {}
            /\ \A o \in input_pts(t) : edges'.inputs[o] = t]_vars

\* a replacement was admitted and a conflict was removed with a descendant
C18_Witness ==
  /\ last.op = "submit" /\ last.ret = "Ok"
  /\ Cardinality(last.rejects) >= 2
  /\ last.id \in DOMAIN entries
  /\ entries[last.id].status = "Pending"

\* C19: when replace by fee is not enabled, check_rbf returns a Reject for
\* any conflicting transaction instead of accepting it or aborting.
C19_FailsClosed ==
  ~enable_rbf(config) =>
    \A t \in RbfCandidates : \A r \in CheckRbf(t) : r.ret \notin {"Ok", "Abort"}

\* C19, amended: check_rbf does not check rule 1 itself but asserts it: called
\* when replace by fee is not enabled it aborts, without accepting the
\* transaction, and when replace by fee is enabled it never aborts.
C19_AssertsEnabled ==
  \A t \in RbfCandidates :
     IF enable_rbf(config)
     THEN \A r \in CheckRbf(t) : r.ret # "Abort"
     ELSE CheckRbf(t) = {RbfResult("Abort", <<>>, {})}

\* replace by fee is not enabled and a conflicting transaction was submitted
C19_Witness ==
  /\ ~enable_rbf(config)
  /\ last.op = "submit" /\ last.ret = "Resolve"
  /\ last.id \in RbfCandidates

DescendantsFee(t) ==
  Sum(FeeOf, {t} \cup calc_descendants(links, t))
    + fee_rate_fee(config.min_rbf_rate, TxSize[t])

\* C20: min_replace_fee of a live entry is None when replace by fee is
\* disabled; when it is enabled it is the sum of the fees of the entry and of
\* all its in-pool descendants plus min_rbf_rate.fee(size), and None when
\* that sum overflows; a fee of 100000000 with 363 extra gives 100000363.
C20_MinReplaceFee ==
  /\ \A t \in DOMAIN entries :
        min_replace_fee(Pool, config, t) =
           IF ~enable_rbf(config) THEN NoCapacity
           ELSE IF DescendantsFee(t) > CapacityMax THEN NoCapacity
           ELSE DescendantsFee(t)
  /\ 100000000 + fee_rate_fee(DefaultConfig.min_rbf_rate, 242) = 100000363

\* the replace fee of an entry with a descendant overflows, and another
\* entry has a replace fee
C20_Witness ==
  /\ enable_rbf(config)
  /\ \E t \in DOMAIN entries :
        /\ calc_descendants(links, t) # {}
        /\ DescendantsFee(t) > CapacityMax
        /\ min_replace_fee(Pool, config, t) = NoCapacity
  /\ \E t \in DOMAIN entries :
        /\ min_replace_fee(Pool, config, t) = DescendantsFee(t)
        /\ DescendantsFee(t) > TxFee[t]

(***************************************************************************)
(* remove_committed_txs                                                    *)
(***************************************************************************)
\* the transactions of the block the last step attached
AttachedSeq == SubSeq(chain', Len(chain) + 1, Len(chain'))
Attached == {AttachedSeq[i] : i \in DOMAIN AttachedSeq}

\* the out points the transactions of the attached block consume
AttachedInputs == UNION {input_pts(t) : t \in Attached}

\* the live entries with an input or a cell dep the attached block consumes
DeadEntries ==
  {x \in DOMAIN entries \ Attached :
      (input_pts(x) \cup cell_deps(x)) \cap AttachedInputs # {}}

\* Links without the entries of ids
LinksWithout(ids) ==
  [x \in DOMAIN links \ ids |->
     [parents |-> links[x].parents \ ids, children |-> links[x].children \ ids]]

\* C22: after remove_committed_txs(txs, headers) no transaction of txs is in
\* the pool, no live entry has an input or a cell dep that a transaction of
\* txs consumes, every entry that had one is removed with its descendants
\* and reported with Resolve(Dead(outpoint)), and committed_txs_hash_cache
\* maps the short id of every transaction of txs to its hash.
C22_CommittedRemoved ==
  [][last'.op = "remove_committed_txs_block" =>
       LET removed == DOMAIN entries \ (DOMAIN entries' \cup Attached)
       IN  /\ Attached \cap DOMAIN entries' = {}
           /\ \A x \in DOMAIN entries' :
                 (input_pts(x) \cup cell_deps(x)) \cap AttachedInputs = {}
           /\ DeadEntries \subseteq removed
           /\ \A x \in DeadEntries :
                 /\ calc_descendants(LinksWithout(Attached), x) \subseteq removed
                 /\ \E r \in last'.rejects :
                       r.id = x /\ r.reason = "Dead" /\ r.arg \in AttachedInputs
           /\ \A x \in DOMAIN entries' : \A o \in input_pts(x) \cup cell_deps(x) :
                 from_tx_hash(o) \notin removed
           /\ \A x \in removed : \E r \in last'.rejects : r.id = x
           /\ \A t \in Attached : lru_peek(cache', t) = tx_hash(t)]_vars

\* a block of two transactions was attached, an entry that cited a consumed
\* out point as cell dep was removed, and the cache has dropped a pair
C22_Witness ==
  /\ last.op = "remove_committed_txs_block"
  /\ \E r \in last.rejects :
        r.reason = "Dead" /\ r.arg \in cell_deps(r.id) /\ r.arg \notin input_pts(r.id)
  /\ Len(cache) = COMMITTED_HASH_CACHE_SIZE
  /\ \E i \in DOMAIN chain : lru_peek(cache, chain[i]) = None

(***************************************************************************)
(* remove_by_detached_proposal and remove_expired                          *)
(***************************************************************************)
\* C23: remove_by_detached_proposal(ids) keeps the set of the live short ids;
\* every id of ids whose entry was Gap or Proposed, and every descendant of
\* such an entry, is Pending afterwards; an id whose entry is Pending, or
\* that is unknown, changes nothing.
C23_DetachedProposalKeepsEntries ==
  [][last'.op = "remove_by_detached_proposal" =>
       LET id == last'.id
       IN  /\ DOMAIN entries' = DOMAIN entries
           /\ IF id \in DOMAIN entries /\ entries[id].status \in {"Gap", "Proposed"}
              THEN \A x \in {id} \cup calc_descendants(links, id) :
                      entries'[x].status = "Pending"
              ELSE UNCHANGED <<entries, edges, links>>]_vars

\* a Gap entry with a descendant that is Proposed and another that is not
\* its child went back to Pending
C23_Witness ==
  /\ last.op = "remove_by_detached_proposal"
  /\ last.status = "Gap"
  /\ calc_descendants(links, last.id) \ links[last.id].children # {}
  /\ \A x \in {last.id} \cup calc_descendants(links, last.id) :
        entries[x].status = "Pending"

TotalSize == Sum(SizeOf, DOMAIN entries)

\* C25: limit_size() terminates from every reachable pool, the total size of
\* the live entries is at most max_tx_pool_size when it returns, and no entry
\* is removed when the total was already within the limit.
C25_LimitSizeTerminatesWithinLimit ==
  [][last'.op = "limit_size" =>
       /\ last'.ret = "Ok"
       /\ TotalSize' <= config.max_tx_pool_size
       /\ TotalSize <= config.max_tx_pool_size =>
             /\ UNCHANGED <<entries, edges, links>>
             /\ last'.rejects = {}]_vars

\* limit_size evicted entries and left others, within the limit
C25_Witness ==
  /\ last.op = "limit_size"
  /\ Cardinality({r.id : r \in last.rejects}) >= 2
  /\ entries # EmptyPool.entries
  /\ \E r \in last.rejects :
        TotalSize + TxSize[r.id] <= config.max_tx_pool_size

\* the fee rate of an entry of pool B together with its descendants
RateWithDescendants(B, x) ==
  (Sum(FeeOf, {x} \cup calc_descendants(B.links, x)) * KB)
    \div Sum(SizeOf, {x} \cup calc_descendants(B.links, x))

\* entry x of pool B is of the first status that has entries, in the order
\* Pending, Gap, Proposed
FirstStatus(B, x) ==
  /\ B.entries[x].status = "Gap" =>
        \A y \in DOMAIN B.entries : B.entries[y].status # "Pending"
  /\ B.entries[x].status = "Proposed" =>
        \A y \in DOMAIN B.entries : B.entries[y].status = "Proposed"

\* no entry of the status of x is ranked below x in pool B
LowestOfStatus(B, x) ==
  \A y \in DOMAIN B.entries :
     B.entries[y].status = B.entries[x].status =>
       /\ RateWithDescendants(B, x) <= RateWithDescendants(B, y)
       /\ RateWithDescendants(B, x) = RateWithDescendants(B, y) =>
             B.entries[x].inner.timestamp >= B.entries[y].inner.timestamp

EvictionStepOk(s) ==
  /\ s.root \in DOMAIN s.before.entries
  /\ FirstStatus(s.before, s.root)
  /\ LowestOfStatus(s.before, s.root)
  /\ s.removed = {s.root} \cup calc_descendants(s.before.links, s.root)
  /\ DOMAIN s.after.entries = DOMAIN s.before.entries \ s.removed

C27_ProposalsPendingNotInUncles ==
  [][last'.op = "package_proposals" =>
       /\ Cardinality(last'.out.ids) <= last'.out.args[1]
       /\ \A x \in last'.out.ids :
             /\ x \in DOMAIN entries
             /\ entries[x].status = "Pending"
             /\ x \notin last'.out.exclusion]_vars

\* package_proposals returned as many ids as the limit allows, and left out a
\* Pending entry an uncle proposes, a Gap entry and a Pending entry over the
\* limit
C27_Witness ==
  /\ last.op = "package_proposals"
  /\ Cardinality(last.out.ids) = last.out.args[1]
  /\ last.out.ids # {}
  /\ \E x \in DOMAIN entries :
        entries[x].status = "Pending" /\ x \in last.out.exclusion
  /\ \E x \in DOMAIN entries : entries[x].status = "Gap"
  /\ \E x \in DOMAIN entries :
        /\ entries[x].status = "Pending"
        /\ x \notin last.out.exclusion
        /\ x \notin last.out.ids

PackagedIds == {last.out.txs[i] : i \in DOMAIN last.out.txs}

QueueIds == {queue[i].id : i \in DOMAIN queue}

\* C29 as stated: add_tx returns Err(Full) whenever the queue is saturated,
\* Ok(false) whenever the short id is queued, and Ok(true) otherwise.
C29_FullWhenSaturated ==
  [][last'.op = "add_tx" =>
       /\ Len(queue) >= DEFAULT_MAX_VERIFY_TRANSACTIONS => last'.ret = "Full"
       /\ last'.id \in QueueIds => last'.ret = "Ok(false)"]_vars

\* C29 (amended): add_tx returns Ok(false) when the short id is queued, with
\* the queue saturated or not; otherwise Err(Full) when the queue is
\* saturated; otherwise Ok(true) after appending the entry with the current
\* time.  A call that does not return Ok(true) leaves the queue as it was.
C29_DuplicateBeforeFull ==
  [][last'.op = "add_tx" =>
       /\ last'.ret =
            IF last'.id \in QueueIds THEN "Ok(false)"
            ELSE IF Len(queue) >= DEFAULT_MAX_VERIFY_TRANSACTIONS THEN "Full"
            ELSE "Ok(true)"
       /\ last'.ret = "Ok(true)" =>
             queue' = Append(queue, [id |-> last'.id, added_time |-> now])
       /\ last'.ret # "Ok(true)" => queue' = queue]_vars

\* add_tx returned Ok(false) for a short id of a saturated queue
C29_Witness ==
  /\ last.op = "add_tx"
  /\ last.ret = "Ok(false)"
  /\ Len(queue) = DEFAULT_MAX_VERIFY_TRANSACTIONS
  /\ last.id \in QueueIds

\* C30: in every reachable state the VerifyQueue holds at most
\* DEFAULT_MAX_VERIFY_TRANSACTIONS entries and no two entries with the same
\* short id.
C30_QueueBounded ==
  /\ Len(queue) <= DEFAULT_MAX_VERIFY_TRANSACTIONS
  /\ \A i \in DOMAIN queue, j \in DOMAIN queue : queue[i].id = queue[j].id => i = j

\* a saturated queue refused an entry while a worker holds another
C30_Witness ==
  /\ Len(queue) = DEFAULT_MAX_VERIFY_TRANSACTIONS
  /\ last.op = "add_tx" /\ last.ret = "Full"
  /\ \E w \in Workers : inflight[w] # None /\ inflight[w] \notin QueueIds

(***************************************************************************)
(* Concurrent submissions that spend the same out point                    *)
(***************************************************************************)
\* the submissions that conflict: the fee of each is above the fee of every
\* cheaper one by more than the fee a replacement must add
Family == {1, 4, 12}

FamilyFeesApart ==
  \A a \in Family, b \in Family :
     TxFee[a] < TxFee[b] =>
       TxFee[b] > TxFee[a] + fee_rate_fee(DefaultConfig.min_rbf_rate, TxSize[b])

Highest == CHOOSE t \in Family : \A u \in Family : TxFee[u] <= TxFee[t]

\* the submission of t was made and nothing of it is queued or held by a
\* worker
Completed(t) ==
  /\ results[t] \notin {"", "Queued"}
  /\ t \notin QueueIds
  /\ \A w \in Workers : inflight[w] # t

NoDoubleSpend ==
  \A x \in DOMAIN entries, y \in DOMAIN entries :
     x # y => input_pts(x) \cap input_pts(y) = {}

OnlyHighestLive ==
  /\ Family \cap DOMAIN entries = {Highest}
  /\ \A t \in Family \ {Highest} : results[t] \notin {"", "Queued", "Ok"}

C31_PublishedIsLength == queue_tx.value = Len(queue)

\* C34 (as claimed): while no command is issued, no entry is left in the
\* queue with nothing to wake a worker: when every worker waits at the top
\* of its loop and has seen the last value of the watch channel, so that
\* only a further add_tx can wake one, the queue is empty.
C34_NoEntryLeftBehind ==
  (/\ ~mgr.issued
   /\ \A w \in mgr.workers : pc[w] = "idle" /\ w \in queue_tx.seen)
  => queue = <<>>

\* the worker w pops in this step, and the entry of the queue with the id
AWorkerPops(w) == pc[w] = "peeked" /\ pc'[w] # "peeked"
QueuedEntry(id) == queue[CHOOSE i \in DOMAIN queue : queue[i].id = id]

\* C32 (as claimed): pop_first returns the entry that arrived first among
\* the queued entries.
C32_PopsInArrivalOrder ==
  [][\A w \in Workers :
        AWorkerPops(w) /\ queue # <<>> => inflight'[w] = queue[1].id]_vars

\* C32 (amended): pop_first returns None if and only if the queue is empty;
\* otherwise it removes and returns an entry peek may report, whose
\* added_time is the smallest of the queue, and leaves the other entries
\* in place.
C32_PopFirstSmallest ==
  [][\A w \in Workers : AWorkerPops(w) =>
        /\ inflight'[w] = None <=> queue = <<>>
        /\ queue = <<>> => queue' = queue
        /\ queue # <<>> =>
              /\ inflight'[w] \in peek(queue)
              /\ \A i \in DOMAIN queue :
                    QueuedEntry(inflight'[w]).added_time <= queue[i].added_time
              /\ queue' = SelectSeq(queue, LAMBDA e : e.id # inflight'[w])]_vars

\* a worker has popped the older of two entries; a worker has popped from
\* a queue emptied after its peek
C32_Witness ==
  /\ last.op = "pop_first" /\ last.id # None
  /\ now = MaxTime
  /\ queue # <<>> /\ \A i \in DOMAIN queue : queue[i].added_time = MaxTime
  /\ \E w \in Workers : pc[w] = "verify" /\ inflight[w] = last.id

\* C40: each entry of the queue is handed to at most one worker.  No two
\* entries of the queue have the same id; a pop that returns an entry takes
\* it out of the queue and gives it to the popping worker alone, so no
\* later pop can return it; a worker that finds the queue empty at its pop,
\* after a peek that found an entry, gets None and processes nothing.
C40_HandedToOneWorker ==
  [][/\ \A i, j \in DOMAIN queue : queue[i].id = queue[j].id => i = j
     /\ \A w \in Workers : AWorkerPops(w) =>
           /\ \A v \in Workers \ {w} : inflight'[v] = inflight[v]
           /\ inflight'[w] # None =>
                 /\ contains_key(queue, inflight'[w])
                 /\ ~contains_key(queue', inflight'[w])
                 /\ Len(queue') = Len(queue) - 1
           /\ queue = <<>> =>
                 inflight'[w] = None /\ pc'[w] = "idle" /\ queue' = <<>>
     /\ \A w \in Workers :
           pc'[w] = "verify" /\ pc[w] # "verify" => AWorkerPops(w)]_vars

\* two workers peeked the same entry: one popped it and holds it, the other
\* has just got None from pop_first
C40_Witness ==
  /\ last.op = "pop_first" /\ last.ret = "None"
  /\ queue = <<>>
  /\ \E w, v \in Workers : pc[w] = "verify" /\ inflight[w] # None /\ pc[v] = "idle"

\* C33 (as claimed): once Suspend is forwarded to a worker, the worker goes
\* on with the entry it is processing at most: it does not enter
\* process_inner while its command channel holds Suspend.
C33_NoEntryTakenAfterSuspend ==
  [][\A w \in Workers :
        pc[w] = "idle" /\ pc'[w] = "recv" => command_rx[w].value # "Suspend"]_vars

\* C33 (amended): a worker enters process_inner, peeks and pops only while
\* its own status is Resume; its status changes only at the top of its
\* loop, to the command it then observes; while its status is Suspend it
\* holds no entry and takes no step but the observation of a new command.
C33_TakesEntriesOnlyInResume ==
  [][\A w \in Workers :
        /\ pc'[w] # pc[w] /\ pc'[w] # "exit" => worker_status[w] = "Resume"
        /\ inflight'[w] # inflight[w] => worker_status[w] = "Resume"
        /\ worker_status[w] = "Suspend" =>
              /\ pc[w] = "idle" /\ inflight[w] = None
              /\ pc'[w] = pc[w] /\ inflight'[w] = inflight[w]
              /\ w \in queue_tx'.seen => w \in queue_tx.seen
        /\ worker_status'[w] # worker_status[w] =>
              /\ pc[w] = "idle" /\ ~command_rx[w].seen
              /\ worker_status'[w] = command_rx[w].value]_vars

\* a suspended worker with a queued entry and a queue-ready signal it has
\* not taken
C33_Witness ==
  \E w \in mgr.workers :
     /\ worker_status[w] = "Suspend" /\ pc[w] = "idle"
     /\ queue # <<>> /\ w \notin queue_tx.seen

\* what holds in every state of a shutdown
StopSafety ==
  /\ mgr.pc # "loop" =>
        /\ mgr.signal_exit
        /\ \A w \in mgr.workers : command_rx[w].value = "Stop"
  /\ mgr.pc = "exit" => \A w \in mgr.workers : pc[w] = "exit"
  /\ \A w \in mgr.workers :
        /\ worker_status[w] = "Stop" => pc[w] \in {"idle", "exit"} /\ inflight[w] = None
        /\ pc[w] = "exit" => worker_status[w] = "Stop"

\* C35: once the cancellation token has fired, the manager sends Stop to
\* every worker and leaves its loop; every worker, whatever it was doing,
\* leaves its loop; a worker that has observed Stop holds no entry and
\* pops none, and stays out of its loop; and the manager returns, which it
\* does only after every worker has left its loop.
C35_StopDrainsWorkers ==
  /\ []StopSafety
  /\ [][\A w \in mgr.workers :
           worker_status[w] = "Stop" =>
              /\ worker_status'[w] = "Stop" /\ inflight'[w] = None
              /\ pc'[w] \in {"idle", "exit"}]_vars
  /\ mgr.signal_exit ~> (\A w \in mgr.workers : command_rx[w].value = "Stop")
  /\ mgr.signal_exit ~> (mgr.pc = "exit")

\* the manager has returned with two workers, while entries are still queued
C35_Witness ==
  /\ mgr.pc = "exit" /\ mgr.workers = Workers
  /\ \A w \in Workers : pc[w] = "exit"
  /\ queue # <<>>

\* the rules of check_rbf over the whole conflict set of t, each taken alone
CountOf == [c \in AllTxIds |-> Cardinality(calc_descendants(links, c)) + 1]
TooManyViolated(t) ==
  Sum(CountOf, find_conflict_tx(Pool, t)) > MAX_REPLACEMENT_CANDIDATES
OverlapViolated(t) ==
  calc_ancestors(links, t) \cap ConflictDescendants(t) # {}
CellDepViolated(t) ==
  \E pt \in cell_deps(t) : from_tx_hash(pt) \in ToReplace(t)
FeeViolated(t) ==
  \/ Sum(FeeOf, ToReplace(t)) + fee_rate_fee(config.min_rbf_rate, TxSize[t])
       > CapacityMax
  \/ TxFee[t] < MinReplaceFeeOf(t)
FeeRejections == {FeeMessage, "calculate_min_replace_fee failed"}
LoopRejections ==
  {"Tx conflict with too many txs",
   "Tx ancestors have common with conflict Tx descendants",
   "new Tx contains inputs in descendants of to be replaced Tx"}

\* the rejection of the earliest violated rule, in the order of the rules
EarliestViolated(t) ==
  IF ~Rule2Passes(t) THEN {"new Tx contains unconfirmed inputs"}
  ELSE IF TooManyViolated(t) THEN {"Tx conflict with too many txs"}
  ELSE IF OverlapViolated(t)
  THEN {"Tx ancestors have common with conflict Tx descendants"}
  ELSE IF InputInDescendants(t)
  THEN {"new Tx contains inputs in descendants of to be replaced Tx"}
  ELSE IF CellDepViolated(t) THEN {"new Tx contains cell deps from conflicts"}
  ELSE IF FeeViolated(t) THEN FeeRejections
  ELSE {"Ok"}

DetachIds == {1, 2, 3, 5, 7}

NextDetach ==
  \/ \E t \in DetachIds, status \in Statuses : AddEntry(t, status)
  \/ \E t \in DetachIds : GapRtx(t)
  \/ \E t \in DetachIds : ProposedRtx(t)
  \/ \E id \in DetachIds : RemoveByDetachedProposal(id)
  \/ RemoveExpired
  \/ Tick

SpecDetach == Init /\ [][NextDetach]_vars

\* the orders in which remove_by_detached_proposal puts the removed entries
\* back: sorted by the ancestors_count they had when they were removed, in
\* any order among equal counts
RECURSIVE readd_orders(_, _)
readd_orders(remaining, removed) ==
  IF remaining = {} THEN {<<>>}
  ELSE LET first == {x \in remaining : \A y \in remaining :
                        removed[x].inner.ancestors_count
                          <= removed[y].inner.ancestors_count}
       IN  UNION {{<<x>> \o s : s \in readd_orders(remaining \ {x}, removed)} :
                    x \in first}

\* the orders of the re-admission for the detached proposal id
DetachedOrders(id) ==
  LET r == remove_entry_and_descendants(Pool, id)
  IN  readd_orders(DOMAIN r.removed, r.removed)

AncestorsFirst(s) ==
  \A i, j \in DOMAIN s : i < j => s[j] \notin calc_ancestors(links, s[i])

\* the live entries that remove_by_detached_proposal can be called for
\* with an effect
Detachable == {id \in DOMAIN entries : entries[id].status # "Pending"}

Readmitted(id) == {id} \cup calc_descendants(links, id)

AggregatesExactIn(P, t) ==
  LET e == P.entries[t].inner
      a == AggregatesOf(t, calc_ancestors(P.links, t))
  IN  /\ e.ancestors_count = a.ancestors_count
      /\ e.ancestors_size = a.ancestors_size
      /\ e.ancestors_fee = a.ancestors_fee
      /\ e.ancestors_cycles = a.ancestors_cycles

\* no entry is put back before a removed entry that is one of its ancestors
C37_Order ==
  \A id \in Detachable : \A s \in DetachedOrders(id) : AncestorsFirst(s)

\* the Links after the call are the Links before it
C37_Links ==
  \A id \in Detachable : \A P \in remove_by_detached_proposal_id(Pool, id) :
     P.links = links

\* the aggregates of the re-admitted entries are the sums over their
\* ancestor closure
C37_Aggregates ==
  \A id \in Detachable : \A P \in remove_by_detached_proposal_id(Pool, id) :
     \A t \in Readmitted(id) : AggregatesExactIn(P, t)

\* C37: remove_by_detached_proposal re-admits the removed entries
\* ancestors first (no entry is put back before a removed entry that is one
\* of its ancestors), and after the call the Links are those before the call
\* and the ancestor aggregates of the re-admitted entries are the sums over
\* their ancestor closure.
C37_AncestorsFirstReadmit == C37_Order /\ C37_Links /\ C37_Aggregates


(***************************************************************************)
(* TxLinksMap::calc_relation_ids step by step, on Links maps that need not *)
(* be those of a pool: with cycles, with entries that are their own parent *)
(* and with ids that have no record in the map.                            *)
(***************************************************************************)
LinkIds == {1, 2, 3}
Relations == {"Parents", "Children"}

\* every Links map over two ids
FullLinks ==
  UNION {[S -> [parents : SUBSET {1, 2}, children : SUBSET {1, 2}]] :
           S \in SUBSET {1, 2}}

\* the Links maps over three ids with any parents and the children that
\* mirror them
MirrorLinks ==
  UNION {{[x \in S |-> [parents |-> ps[x],
                        children |-> {y \in S : x \in ps[y]}]] :
            ps \in [S -> SUBSET LinkIds]} : S \in SUBSET LinkIds}

InitLinks ==
  /\ entries = EmptyPool.entries
  /\ edges = EmptyPool.edges
  /\ links \in FullLinks \cup MirrorLinks
  /\ chain = <<>>
  /\ now = 0
  /\ last = Result("new", 0, "", "Ok", {})
  /\ config = DefaultConfig
  /\ cache = <<>>
  /\ queue = <<>>
  /\ pc = [w \in Workers |-> "idle"]
  /\ inflight = [w \in Workers |-> None]
  /\ results = [t \in AllTxIds |-> ""]
  /\ queue_tx = [value |-> 0, seen |-> Workers]
  /\ command_rx = [w \in Workers |-> [value |-> "Resume", seen |-> TRUE]]
  /\ worker_status = [w \in Workers |-> "Resume"]
  /\ mgr = VerifyMgrNew(Workers)
  /\ calc = CalcIdle

links_vars == <<entries, edges, links, chain, now, last, config, cache, verify_vars>>

\* the direct ids of id, empty for an id without record (unwrap_or_default)
direct_ids(lk, id, relation) ==
  IF id \in DOMAIN lk THEN get_direct_ids(lk[id], relation) ELSE {}

\* calc_relation_ids(stage, relation) is called
CalcRelationIds(stage, relation) ==
  /\ calc.pc = "idle"
  /\ calc' = [pc |-> "loop", stage |-> stage, relation_ids |-> {},
              relation |-> relation, seed |-> stage]
  /\ UNCHANGED links_vars

\* calc_ancestors / calc_descendants of short_id: calc_relative_ids starts
\* the traversal from the direct ids of short_id
CalcRelativeIds(short_id, relation) ==
  CalcRelationIds(direct_ids(links, short_id, relation), relation)

\* an iteration of the loop that stages every direct id, visited or not
CalcLoopUnguarded ==
  /\ calc.pc = "loop"
  /\ \E id \in calc.stage :
        calc' = [calc EXCEPT
                   !.relation_ids = @ \cup {id},
                   !.stage = (@ \ {id}) \cup direct_ids(links, id, calc.relation)]
  /\ UNCHANGED links_vars

\* one iteration of the while loop: any id of the stage (the first of the
\* iteration of a HashSet) moves to relation_ids, and its direct ids that are
\* not in relation_ids are staged
CalcLoop ==
  /\ calc.pc = "loop"
  /\ \E id \in calc.stage :
        LET ids == calc.relation_ids \cup {id}
        IN  calc' = [calc EXCEPT
                       !.relation_ids = ids,
                       !.stage = (@ \ {id})
                                   \cup (direct_ids(links, id, calc.relation) \ ids)]
  /\ UNCHANGED links_vars

\* the stage is empty: the loop ends and relation_ids is returned
CalcReturn ==
  /\ calc.pc = "loop"
  /\ calc.stage = {}
  /\ calc' = [calc EXCEPT !.pc = "done"]
  /\ UNCHANGED links_vars

NextLinks ==
  \/ \E stage \in SUBSET LinkIds, relation \in Relations :
        CalcRelationIds(stage, relation)
  \/ \E short_id \in LinkIds, relation \in Relations :
        CalcRelativeIds(short_id, relation)
  \/ CalcLoop
  \/ CalcReturn

SpecLinks == InitLinks /\ [][NextLinks]_vars

\* the function runs on: an iteration or the return that can be taken is
\* taken
FairLinks == SpecLinks /\ WF_vars(CalcLoop) /\ WF_vars(CalcReturn)

\* the ids reached from S in at most n steps of the relation
RECURSIVE ReachableIn(_, _, _, _)
ReachableIn(lk, S, relation, n) ==
  IF n = 0 THEN S
  ELSE LET R == ReachableIn(lk, S, relation, n - 1)
       IN  R \cup UNION {direct_ids(lk, x, relation) : x \in R}

Reachable(lk, S, relation) ==
  ReachableIn(lk, S, relation, Cardinality(LinkIds))

\* C38: calc_relation_ids ends for every Links map, with or without cycles,
\* and what it returns is the set of the ids reachable from the seed set
\* through the relation; it is also what the operator calc_relation_ids gives.
C38_TerminatesWithReachable ==
  /\ [](calc.pc = "done" =>
          /\ calc.relation_ids = Reachable(links, calc.seed, calc.relation)
          /\ calc.relation_ids = calc_relation_ids(links, calc.seed, calc.relation))
  /\ (calc.pc = "loop") ~> (calc.pc = "done")

\* a traversal that has ended on a map with a cycle through the seed
C38_Witness ==
  /\ calc.pc = "done"
  /\ \E x \in calc.seed :
        x \in Reachable(links, direct_ids(links, x, calc.relation), calc.relation)
  /\ Cardinality(calc.relation_ids) > 1


\* the out points of the transactions of the universe and of transaction 0
OutPoints == UNION {output_pts(t) : t \in AllTxIds} \cup {<<0, 0>>, <<0, 1>>}

\* C39: Edges.outputs has the key o exactly when o is an output of a live
\* entry; its value is Some(c) exactly when the live entry c consumes o and
\* None when no live entry does; the cell lookup of PoolMap finds the
\* producing entry of every key of Edges.outputs and never fails.
C39_OutputsExact ==
  /\ DOMAIN edges.outputs = UNION {output_pts(t) : t \in DOMAIN entries}
  /\ \A o \in DOMAIN edges.outputs : \A c \in AllTxIds :
        edges.outputs[o] = c <=> (c \in DOMAIN entries /\ o \in input_pts(c))
  /\ \A o \in DOMAIN edges.outputs :
        edges.outputs[o] = None <=> ~\E c \in DOMAIN entries : o \in input_pts(c)
  /\ \A o \in DOMAIN edges.outputs : get_output_with_data(Pool, o)
  /\ \A o \in OutPoints : cell(Pool, o) # "panic"

\* a consumed and an unconsumed output recorded after removals: the entry
\* that consumed an output was removed and another entry consumes an output
C39_Witness ==
  /\ last.op \in {"remove_tx", "remove_expired", "remove_committed_txs"}
  /\ \E o \in DOMAIN edges.outputs : edges.outputs[o] # None
  /\ \E o \in DOMAIN edges.outputs : edges.outputs[o] = None /\ cell(Pool, o) = "Live"

====
